---- MODULE Spec2Model ----
(***************************************************************************)
(* A model of the item uploader of shopee-support: the Copy Template page  *)
(* (app.py), the upload of the BASIC / MEDIA / SALES files                 *)
(* (upload_apply.py), the controller of the automation steps               *)
(* (main_controller.py), the header resolver (utils_common.py,             *)
(* automation_steps.py) and the steps that build and fill TEM_OUTPUT       *)
(* (automation_steps.py).                                                  *)
(*                                                                         *)
(* Cells, headers, file names and log lines are strings; a sheet is a      *)
(* sequence of rows and a row a sequence of cells.  Python's 0-based       *)
(* column indices are kept (-1 = not found); a 0-based index i names the   *)
(* element i + 1 of a TLA+ sequence.                                       *)
(***************************************************************************)
EXTENDS Integers, Sequences, FiniteSets, TLC

VARIABLES
  \* ---- the Copy Template page and the controller -----------------------
  pc,                  \* position of the page script in the click handler
  upload_success,      \* st.session_state.upload_success
  automation_success,  \* st.session_state.automation_success
  download_file,       \* st.session_state.download_file (0 = None, else the run that made it)
  runId,               \* number of clicks of the run button so far
  files_dict,          \* collect_xlsx_files(uploaded_files): file names in dict order
  fidx,                \* position of apply_uploaded_files in files_dict
  ok_line,             \* logs of apply_uploaded_files: some line starts with "[OK]"
  ok_text,             \* logs of apply_uploaded_files: some line contains "[OK]"
  written,             \* tabs that a file of this run was written to without error
  calls,               \* steps the controller has called in this run, in call order
  outcomes,            \* how each called step ended: "ok" or "raise"
  all_success,         \* local all_success of run_all_steps_with_progress
  init_failed,         \* _initialize_failures_sheet raised in this run
  returned,            \* what run_all_steps_with_progress returned in this run ("no": not yet)
  step7,               \* what run_step_7 did in this run: "none yet", "data", "empty", "raise"
  \* ---- the header resolver ----------------------------------------------
  hdr_a,               \* a header string
  hdr_b,               \* a second header string, derived from hdr_a by edits
  hdr_edits,           \* the kinds of edit applied to get hdr_b from hdr_a
  hdr_row,             \* a header row the resolver searches
  hdr_cands,           \* the candidate names it searches for
  hdr_res,             \* what the resolver returned: [done, pick, find]
  \* ---- Step 1 ------------------------------------------------------------
  ref_doc,             \* how open_ref_by_env ends: "ok", "main" (it is the main document), "unopenable"
  basic_tab,           \* the BASIC tab: [exists, rows]
  media_tab,           \* the MEDIA tab
  sales_tab,           \* the SALES tab
  template_tab,        \* the TemplateDict tab of the reference document
  tem_tab,             \* the TEM_OUTPUT tab
  tem_tops,            \* for each row of TEM_OUTPUT that Step 1 wrote, the top-level category it belongs to
  failures_tab,        \* the Failures tab
  s1_raised,           \* the exception run_step_1 raised ("" = none, "not called")
  s1_failures,         \* the local list failures of run_step_1 when it ended
  \* ---- Step 2 ------------------------------------------------------------
  ref_worksheets,      \* ref.worksheets() but for cat props: each [title, rows]
  cat_props_tab,       \* the cat props tab of the reference document
  overwrite_env,       \* the text of OVERWRITE_NONEMPTY ("" = not set)
  tem_before,          \* the rows of TEM_OUTPUT when run_step_2 was called
  s2_raised,           \* the exception run_step_2 raised ("" = none, "not called")
  s2_updates,          \* the local list updates of run_step_2 when it ended
  color_requests,      \* the coloring requests it sent: [col, startRowIndex, endRowIndex]
  \* ---- Steps 3 to 7 ------------------------------------------------------
  fda_tab,             \* column A of the TH Cos tab of the reference document
  step_overwrite,      \* the argument overwrite of run_step_3
  margin_tab,          \* the MARGIN tab
  brand_tab,           \* the Brand tab of the reference document
  shop_code,           \* the argument shop_code of run_step_6
  image_host,          \* the text of IMAGE_HOSTING_URL
  step_before,         \* the rows of TEM_OUTPUT when the step was called
  step_updates,        \* the cells the step gave to update_cells
  step_raised,         \* the exception the step raised ("" = none, "not called")
  step_failures,       \* the local list failures of the step when it ended
  workbook,            \* the sheets run_step_7 wrote, in order: [name, rows]
  \* ---- utils_common.py and upload_apply.py --------------------------------
  cat_in,              \* the argument cat of top_of_category
  cat_res,             \* what the callers of top_of_category made of it
  rt_pc,               \* position of with_retry: "idle", "call", "except", "sleep", "returned", "raised"
  rt_attempt,          \* the loop variable attempt of with_retry
  rt_calls,            \* calls of fn so far
  rt_sleeps,           \* calls of time.sleep so far
  rt_backoffs,         \* times delay was multiplied by backoff
  rt_err,              \* the exception fn raised last: [code, msg]
  rt_sleep_for,        \* the argument of the last time.sleep, in DelayUnit-ths of a second
  rt_out,              \* how with_retry ended: [kind, value, err]
  up_files,            \* the files given to apply_uploaded_files: [name, parsed, values]
  up_idx,              \* position of the loop over the files
  up_chunk,            \* int(UPLOAD_CHUNK_ROWS)
  up_grid,             \* row_count and col_count of the tabs BASIC, MEDIA, SALES
  up_logs,             \* the list logs of apply_uploaded_files
  up_wrote,            \* how the write of each file handled so far ended
  up_calls,            \* the calls of ws.update of the last write: [row, rows]
  \* ---- the Failures tab in one run of the controller ----------------------
  fl_pc,               \* where the run is: "idle", "init", "step 1", "step 4", "done", "init failed"
  fl_logged,           \* the failure rows the steps of this run have appended
  \* ---- _merge of run_step_2 -----------------------------------------------
  mg_spans,            \* the argument spans of _merge: a list of <<start, end>>
  mg_out               \* [state, merged]: the list _merge returned

vars_app == <<pc, upload_success, automation_success, download_file, runId,
              files_dict, fidx, ok_line, ok_text, written, calls, outcomes,
              all_success,
              init_failed, returned, step7>>
vars_hdr == <<hdr_a, hdr_b, hdr_edits, hdr_row, hdr_cands, hdr_res>>

vars_s1 == <<ref_doc, basic_tab, media_tab, sales_tab, template_tab,
             tem_tops, failures_tab, s1_raised, s1_failures>>
vars_s2 == <<ref_worksheets, cat_props_tab, overwrite_env, tem_before, s2_raised,
             s2_updates, color_requests>>

vars_steps == <<fda_tab, step_overwrite, margin_tab, brand_tab, shop_code, image_host,
                step_before, step_updates, step_raised, step_failures, workbook>>

vars_util == <<cat_in, cat_res, rt_pc, rt_attempt, rt_calls, rt_sleeps, rt_backoffs,
               rt_err, rt_sleep_for, rt_out, up_files, up_idx, up_chunk, up_grid, up_logs, up_wrote,
               up_calls, fl_pc, fl_logged, mg_spans, mg_out>>

other_than_app == <<vars_hdr, vars_s1, tem_tab, vars_s2, vars_steps, vars_util>>
other_than_hdr == <<vars_app, vars_s1, tem_tab, vars_s2, vars_steps, vars_util>>
other_than_s1 == <<vars_app, vars_hdr, vars_s2, vars_steps, vars_util>>
other_than_s2 == <<vars_app, vars_hdr, vars_s1, vars_steps, vars_util>>

(***************************************************************************)
(* Strings.                                                                *)
(***************************************************************************)
Ch(s, i) == SubSeq(s, i, i)

\* x in s, for strings
Contains(s, x) ==
  \E i \in 1..(Len(s) - Len(x) + 1) : SubSeq(s, i, i + Len(x) - 1) = x

StartsWith(s, x) == Len(x) <= Len(s) /\ SubSeq(s, 1, Len(x)) = x

EndsWith(s, x) == Len(x) <= Len(s) /\ SubSeq(s, Len(s) - Len(x) + 1, Len(s)) = x

UpperLetters == "ABCDEFGHIJKLMNOPQRSTUVWXYZ"
LowerLetters == "abcdefghijklmnopqrstuvwxyz"
Digits == "0123456789"

\* the characters str.strip() removes, among those the model uses
IsSpace(c) == c = " " \/ c = " "

\* str.lower() on one character
LowerMap ==
  [c \in {Ch(UpperLetters, i) : i \in 1..26} |->
     Ch(LowerLetters, CHOOSE i \in 1..26 : Ch(UpperLetters, i) = c)]

LowerCh(c) ==
  IF c \in DOMAIN LowerMap THEN LowerMap[c]
  ELSE IF c = "É" THEN "é" ELSE c

RECURSIVE lower(_)
lower(s) == IF s = "" THEN "" ELSE LowerCh(Head(s)) \o lower(Tail(s))

RECURSIVE lstrip(_)
lstrip(s) == IF s # "" /\ IsSpace(Head(s)) THEN lstrip(Tail(s)) ELSE s

RECURSIVE rstrip(_)
rstrip(s) ==
  IF s # "" /\ IsSpace(Ch(s, Len(s))) THEN rstrip(SubSeq(s, 1, Len(s) - 1)) ELSE s

strip(s) == rstrip(lstrip(s))

(***************************************************************************)
(* utils_common.py: normalization of header text                           *)
(***************************************************************************)
\* str.replace(a, b) for a one-character a
RECURSIVE replace(_, _, _)
replace(s, a, b) ==
  IF s = "" THEN ""
  ELSE (IF Head(s) = a THEN b ELSE Head(s)) \o replace(Tail(s), a, b)

\* (a norm that forgets .lower())
norm_NoLower(s) ==
  replace(strip(s), " ", " ")

\* norm: strip, lower, NBSP to space.  (norm also deletes U+200B, U+200C and
\* U+200D, which a module cannot spell; the strings of the model hold none.)
norm(s) ==
  replace(lower(strip(s)), " ", " ")

\* the characters of the class [a-z0-9\-]
KeptChars ==
  {Ch(LowerLetters, i) : i \in 1..26} \cup {Ch(Digits, i) : i \in 1..10} \cup {"-"}

\* re.sub(r"[^a-z0-9\-]+", "", s)
RECURSIVE KeepKeyChars(_)
KeepKeyChars(s) ==
  IF s = "" THEN ""
  ELSE (IF Head(s) \in KeptChars THEN Head(s) ELSE "") \o KeepKeyChars(Tail(s))

\* the header names the steps look for and the header texts of the tabs below
KnownHeaders ==
  {"category", "product name", "variation name1", "option for variation 1",
   "image per variation", "item image 1", "item image 2", "parent sku", "sku",
   "productid", "pid", "itemid", "ettitleproductid", "productname", "itemname",
   "name", "coverimage", "coverimg", "variationname1", "variationname",
   "variation", "product id", "item id", "et_title_product_id", "parent_sku",
   "seller sku", "seller_sku", "et_title_parent_sku", "variation name",
   "option name", "option 1 name", "variation option", "option",
   "variation sku", "child sku", "option sku", "seller_child_sku",
   "et_title_child_sku",
   "", "Category", "Product Name", "Parent SKU", "Variation Name1",
   "Option for Variation 1", "Image per Variation", "SKU", "Item Image 1",
   "Item Image 2", "Cover Image", "Product ID", "Option 1 Name",
   "Option 1 Image", "Option 2 Name", "Item Name", "CATEGORY ", "Variation",
   "Note", "Group", "Variation Name", "Item ID", "Option", "Child SKU", "Name",
   "attribute", "attr", "property", "defaultvalue", "default", "Attribute",
   "Default Value", "Attr", "Default", "Brand", "brand", "Warranty", "warranty",
   "Warranty Type", "Color", "color"}

\* header_key of each of them, computed once
KnownKeys == [s \in KnownHeaders |-> KeepKeyChars(norm(s))]

\* header_key
header_key(s) == IF s \in KnownHeaders THEN KnownKeys[s] ELSE KeepKeyChars(norm(s))

\* [header_key(x) for x in header_row]
HeaderKeys(row) == [i \in 1..Len(row) |-> header_key(row[i])]

(***************************************************************************)
(* automation_steps.py: the header resolver                                *)
(***************************************************************************)
\* the 0-based index of the first of the 1-based positions in hits, or -1
FirstIndex(hits) ==
  IF hits = {} THEN -1 ELSE (CHOOSE i \in hits : \A j \in hits : i <= j) - 1

\* _pick_index_by_candidates: the candidates in order, for each the columns
\* in order; first on equal keys, then on a non-empty candidate key contained
PickExact(keys, cks) ==
  LET Hit(c) == \E i \in 1..Len(keys) : keys[i] = cks[c]
      c0 == FirstIndex({c \in 1..Len(cks) : Hit(c)})
  IN IF c0 < 0 THEN -1
     ELSE FirstIndex({i \in 1..Len(keys) : keys[i] = cks[c0 + 1]})

PickContains(keys, cks) ==
  LET Hit(c) == cks[c] # "" /\ \E i \in 1..Len(keys) : Contains(keys[i], cks[c])
      c0 == FirstIndex({c \in 1..Len(cks) : Hit(c)})
  IN IF c0 < 0 THEN -1
     ELSE FirstIndex({i \in 1..Len(keys) : Contains(keys[i], cks[c0 + 1])})

_pick_index_by_candidates(header_row, candidates) ==
  LET keys == HeaderKeys(header_row)
      cks == HeaderKeys(candidates)
      exact == PickExact(keys, cks)
  IN IF exact >= 0 THEN exact ELSE PickContains(keys, cks)

\* _find_col_index: the columns in order; first on a key among the aliases,
\* then on a key that contains a non-empty alias
_find_col_index(keys, name, extra_alias) ==
  LET aliases == HeaderKeys(extra_alias) \o << header_key(name) >>
      Exact(i) == \E a \in 1..Len(aliases) : keys[i] = aliases[a]
      Has(i) == \E a \in 1..Len(aliases) : aliases[a] # "" /\ Contains(keys[i], aliases[a])
      exact == FirstIndex({i \in 1..Len(keys) : Exact(i)})
  IN IF exact >= 0 THEN exact ELSE FirstIndex({i \in 1..Len(keys) : Has(i)})

(***************************************************************************)
(* utils_common.py: categories                                             *)
(***************************************************************************)
\* the number of digits s starts with
RECURSIVE LeadingDigits(_)
LeadingDigits(s) ==
  IF s # "" /\ Contains(Digits, Head(s)) THEN 1 + LeadingDigits(Tail(s)) ELSE 0

\* strip_category_id: re.match(r"^\s*\d+\s*-\s*(.+)$", s), group 1 if it
\* matches, else s.  When only whitespace follows the hyphen, \s* gives its
\* last character back to (.+).
strip_category_id(cat) ==
  LET a == lstrip(cat)
      nd == LeadingDigits(a)
      b == lstrip(SubSeq(a, nd + 1, Len(a)))
      rest == IF b = "" THEN "" ELSE Tail(b)
  IN IF nd >= 1 /\ b # "" /\ Head(b) = "-" /\ rest # ""
     THEN (IF lstrip(rest) # "" THEN lstrip(rest) ELSE Ch(rest, Len(rest)))
     ELSE cat

\* s.split(sep, 1)[0]
RECURSIVE Before(_, _)
Before(s, sep) ==
  IF s = "" \/ Head(s) = sep THEN "" ELSE Head(s) \o Before(Tail(s), sep)

\* s up to its first character that is one of the four separators
RECURSIVE BeforeAny(_)
BeforeAny(s) ==
  IF s = "" \/ Head(s) \in {"/", ">", "|", "\\"} THEN "" ELSE Head(s) \o BeforeAny(Tail(s))

\* (a top_of_category that cuts at the first separator of any kind)
top_of_category_FirstSeparator(cat) ==
  IF cat = "" THEN "" ELSE lower(strip(BeforeAny(strip_category_id(cat))))

\* top_of_category ("" stands for None; the callers read it with `or ""`)
top_of_category(cat) ==
  LET tail == strip_category_id(cat)
      cut == IF Contains(tail, "/") THEN Before(tail, "/")
             ELSE IF Contains(tail, ">") THEN Before(tail, ">")
             ELSE IF Contains(tail, "|") THEN Before(tail, "|")
             ELSE IF Contains(tail, "\\") THEN Before(tail, "\\")
             ELSE tail
  IN IF cat = "" THEN "" ELSE lower(strip(cut))

(***************************************************************************)
(* automation_steps.py: run_step_1                                         *)
(***************************************************************************)
\* int(get_env("BASIC_HEADER_ROW", "2")) and the like, at their defaults
BASIC_HEADER_ROW == 2
MEDIA_HEADER_ROW == 2
MEDIA_FIRST_DATA_ROW == 6

\* row[i] for a 0-based index i inside the row, else ""
Cell(row, i) == IF 0 <= i /\ i < Len(row) THEN row[i + 1] ELSE ""

\* row[1:]
Rest(row) == SubSeq(row, 2, Len(row))

\* re.sub(r"\s+", " ", s)
RECURSIVE CollapseSpaces(_)
CollapseSpaces(s) ==
  IF s = "" THEN ""
  ELSE IF IsSpace(Head(s)) THEN " " \o CollapseSpaces(lstrip(s))
  ELSE Head(s) \o CollapseSpaces(Tail(s))

\* a dict as a function: d[k] = v, d.get(k, default)
DictPut(d, k, v) == [x \in DOMAIN d \cup {k} |-> IF x = k THEN v ELSE d[x]]
DictGet(d, k, default) == IF k \in DOMAIN d THEN d[k] ELSE default

\* template_dict: for the rows after the first whose first cell is not blank,
\* header_key(row[0]) -> the other cells, stripped; a later row replaces an
\* earlier one of the same key
RECURSIVE template_dict(_)
template_dict(template_vals) ==
  IF Len(template_vals) < 2 THEN << >>
  ELSE LET d == template_dict(SubSeq(template_vals, 1, Len(template_vals) - 1))
           row == template_vals[Len(template_vals)]
       IN IF strip(Cell(row, 0)) = "" THEN d
          ELSE DictPut(d, header_key(row[1]), [i \in 1..(Len(row) - 1) |-> strip(row[i + 1])])

\* the digits n of a key "option<n>name" (patt, ^option(\d+)name$), "" when
\* the key does not match
OptionNumber(key) ==
  LET mid == SubSeq(key, 7, Len(key) - 4) IN
  IF Len(key) > 10 /\ StartsWith(key, "option") /\ EndsWith(key, "name")
     /\ LeadingDigits(mid) = Len(mid)
  THEN mid ELSE ""

\* the 0-based indices 0..n-1 that satisfy the test, in order
RECURSIVE IndicesWhere(_, _)
IndicesWhere(n, hits) ==
  IF n = 0 THEN << >>
  ELSE IndicesWhere(n - 1, hits) \o (IF n \in hits THEN << n - 1 >> ELSE << >>)

\* parse_media_header_row
parse_media_header_row(header_row) ==
  LET keys == HeaderKeys(header_row)
      n == Len(keys)
      names == IndicesWhere(n, {i \in 1..n : OptionNumber(keys[i]) # ""})
  IN [pid |-> _find_col_index(keys, "productid", << "pid", "itemid", "ettitleproductid" >>),
      pname |-> _find_col_index(keys, "productname", << "itemname", "name" >>),
      category |-> _find_col_index(keys, "category", << >>),
      cover |-> _find_col_index(keys, "coverimage", << "coverimg" >>),
      var_label |-> _find_col_index(keys, "variationname1", << "variationname", "variation" >>),
      item_images |-> IndicesWhere(n, {i \in 1..n : StartsWith(keys[i], "itemimage")}),
      opt_name_cols |-> names,
      opt_img_cols |->
        [c \in 1..Len(names) |->
           FirstIndex({j \in 1..n :
               keys[j] = "option" \o OptionNumber(keys[names[c] + 1]) \o "image"})]]

\* str(k)
RECURSIVE Decimal(_)
Decimal(k) ==
  IF k < 10 THEN Ch(Digits, k + 1) ELSE Decimal(k \div 10) \o Ch(Digits, (k % 10) + 1)

\* the SALES mappings after the rows 1..r (0-based) of sales_vals; ix holds
\* the four column indices picked from its header
RECURSIVE SalesRows(_, _, _)
SalesRows(sales_vals, ix, r) ==
  IF r < 1 THEN [parent_sku_map |-> << >>, sku_by_pid_opt |-> << >>]
  ELSE LET m == SalesRows(sales_vals, ix, r - 1)
           row == sales_vals[r + 1]
           pid == strip(Cell(row, ix.pid_idx))
           psku == strip(Cell(row, ix.psku_idx))
           vname == strip(Cell(row, ix.var_name_idx))
           sku == strip(Cell(row, ix.sku_idx))
           m1 == IF psku # ""
                 THEN [m EXCEPT !.parent_sku_map = DictPut(@, pid, psku)] ELSE m
           m2 == IF 0 <= ix.var_name_idx /\ ix.var_name_idx < Len(row)
                    /\ 0 <= ix.sku_idx /\ ix.sku_idx < Len(row)
                    /\ vname # "" /\ sku # ""
                 THEN [m1 EXCEPT !.sku_by_pid_opt =
                                   DictPut(@, << pid, CollapseSpaces(lower(vname)) >>, sku)]
                 ELSE m1
       IN IF pid = "" THEN m ELSE m2

\* the try block of the SALES mappings: a SALES tab that cannot be read, is
\* empty or has no product id column leaves both maps empty
sales_mappings(sales) ==
  LET hdr == sales.rows[1]
      ix == [pid_idx |-> _pick_index_by_candidates(hdr,
                 << "product id", "pid", "item id", "et_title_product_id" >>),
             psku_idx |-> _pick_index_by_candidates(hdr,
                 << "parent sku", "parent_sku", "seller sku", "seller_sku",
                    "et_title_parent_sku" >>),
             var_name_idx |-> _pick_index_by_candidates(hdr,
                 << "variation name", "option name", "option 1 name",
                    "variation option", "variation", "option" >>),
             sku_idx |-> _pick_index_by_candidates(hdr,
                 << "sku", "variation sku", "child sku", "option sku",
                    "seller_child_sku", "et_title_child_sku" >>)]
  IN IF sales.exists /\ sales.rows # << >> /\ ix.pid_idx >= 0
     THEN SalesRows(sales.rows, ix, Len(sales.rows) - 1)
     ELSE [parent_sku_map |-> << >>, sku_by_pid_opt |-> << >>]

\* set_if_exists
set_if_exists(headers, row, name, value) ==
  LET idx == _find_col_index(HeaderKeys(headers), name, << >>) IN
  IF idx >= 0 THEN [row EXCEPT ![idx + 1] = value] ELSE row

\* `if cond: set_if_exists(...)`
SetWhen(cond, headers, row, name, value) ==
  IF cond THEN set_if_exists(headers, row, name, value) ELSE row

\* for k, url in enumerate(item_imgs, start=1): the first k of them
RECURSIVE SetItemImages(_, _, _, _)
SetItemImages(headers, arr, item_imgs, k) ==
  IF k = 0 THEN arr
  ELSE SetWhen(item_imgs[k] # "", headers,
               SetItemImages(headers, arr, item_imgs, k - 1),
               "item image " \o Decimal(k), item_imgs[k])

\* the options of a MEDIA row: (name, image) of each option column whose
\* name is not blank; one pair of blanks when the header has no option column
OptionsOf(row, media_hdr) ==
  LET names == media_hdr.opt_name_cols
      imgs == media_hdr.opt_img_cols
      all == [c \in 1..Len(names) |->
                << strip(Cell(row, names[c])), strip(Cell(row, imgs[c])) >>]
      Named(o) == o[1] # ""
  IN IF names # << >> THEN SelectSeq(all, Named) ELSE << << "", "" >> >>

\* the key of the bucket a row goes to (with the mutant just above it)
BucketKey_ByCategory(top_norm, cat) == cat

BucketKey(top_norm, cat) == top_norm

\* what the loop has built so far.  order lists the bucket keys as a dict
\* keeps them, by first insertion.  top and tops are not in the code: they
\* keep, for a bucket and for each of its rows, the top-level category of the
\* MEDIA row they come from.
NoRows ==
  [order |-> << >>, buckets |-> << >>, failures |-> << >>, processed |-> 0]

\* arr: the row of one option of a product cx, csku_val being the SKU that
\* sku_by_pid_opt has for it ("" = none)
OptionRow(cx, opt_name_raw, opt_img, csku_val) ==
  LET h == cx.headers
      a1 == set_if_exists(h, [i \in 1..Len(h) |-> ""], "category", cx.cat)
      a2 == set_if_exists(h, a1, "product name", cx.pname)
      a3 == set_if_exists(h, a2, "variation name1", cx.var_label_val)
      a4 == set_if_exists(h, a3, "option for variation 1", opt_name_raw)
      a5 == SetWhen(opt_img # "", h, a4, "image per variation", opt_img)
      a6 == SetItemImages(h, a5, cx.item_imgs, Len(cx.item_imgs))
      a7 == SetWhen(cx.psku_val # "", h, a6, "parent sku", cx.psku_val)
  IN SetWhen(csku_val # "", h, a7, "sku", csku_val)

\* failures after that row: an option with a name and without a SKU is one
OptionFailures(failures, cx, opt_name_raw, csku_val) ==
  IF csku_val = "" /\ opt_name_raw # ""
  THEN Append(failures, << cx.pid, cx.cat, cx.pname,
                           "SKU_MATCH_NOT_FOUND", "opt=" \o opt_name_raw >>)
  ELSE failures

\* b = buckets.setdefault(key, ...), the appends to b and processed += 1
AddRow(a, key, cx, arr, fails) ==
  LET isNew == key \notin DOMAIN a.buckets
      b == IF isNew
           THEN [headers |-> cx.headers, top |-> cx.top_norm,
                 pids |-> << >>, rows |-> << >>, tops |-> << >>]
           ELSE a.buckets[key]
  IN [order |-> IF isNew THEN Append(a.order, key) ELSE a.order,
      buckets |-> DictPut(a.buckets, key,
                    [b EXCEPT !.pids = Append(@, << cx.pid >>),
                              !.rows = Append(@, arr),
                              !.tops = Append(@, cx.top_norm)]),
      failures |-> fails,
      processed |-> a.processed + 1]

\* the body of `for (opt_name_raw, opt_img) in options`
OptionBody(a, cx, opt_name_raw, opt_img, csku_val) ==
  AddRow(a, BucketKey(cx.top_norm, cx.cat), cx,
         OptionRow(cx, opt_name_raw, opt_img, csku_val),
         OptionFailures(a.failures, cx, opt_name_raw, csku_val))

\* that loop, for the first n options
RECURSIVE OptionRows(_, _, _, _)
OptionRows(acc, cx, opts, n) ==
  IF n = 0 THEN acc
  ELSE OptionBody(OptionRows(acc, cx, opts, n - 1), cx, opts[n][1], opts[n][2],
                  DictGet(cx.sku_by_pid_opt,
                          << cx.pid, CollapseSpaces(lower(opts[n][1])) >>, ""))

\* headers = template_dict.get(header_key(top_norm), []) or
\*           template_dict.get(header_key(cat), [])
TemplateHeaders(tdict, top_norm, cat) ==
  IF DictGet(tdict, header_key(top_norm), << >>) # << >>
  THEN DictGet(tdict, header_key(top_norm), << >>)
  ELSE DictGet(tdict, header_key(cat), << >>)

\* the fields of a MEDIA row that the loop works with
RowContext(row, media_hdr, maps, pid, cat, top_norm, headers) ==
  [pid |-> pid, cat |-> cat, pname |-> Cell(row, media_hdr.pname),
   top_norm |-> top_norm, headers |-> headers,
   item_imgs |-> [k \in 1..Len(media_hdr.item_images) |->
                    strip(Cell(row, media_hdr.item_images[k]))],
   var_label_val |-> strip(Cell(row, media_hdr.var_label)),
   psku_val |-> DictGet(maps.parent_sku_map, pid, ""),
   sku_by_pid_opt |-> maps.sku_by_pid_opt]

\* the body of `for r in range(start_r, len(media_vals))` for a row with
\* these fields: skipped, or a failure, or the rows of its options
MediaRowBody(acc, cx, opts) ==
  IF cx.pid = "" \/ cx.cat = "" THEN acc
  ELSE IF cx.headers = << >>
  THEN [acc EXCEPT !.failures = Append(@, << cx.pid, cx.cat, cx.pname,
                         "TEMPL_HEADER_NOT_FOUND", "top=" \o cx.top_norm >>)]
  ELSE OptionRows(acc, cx, opts, Len(opts))

MediaRowOf(acc, row, media_hdr, tdict, maps, pid, cat, top_norm) ==
  MediaRowBody(acc,
               RowContext(row, media_hdr, maps, pid, cat, top_norm,
                          TemplateHeaders(tdict, top_norm, cat)),
               OptionsOf(row, media_hdr))

MediaRow(acc, row, media_hdr, tdict, maps, cat) ==
  MediaRowOf(acc, row, media_hdr, tdict, maps, strip(Cell(row, media_hdr.pid)), cat,
             lower(top_of_category(cat)))

\* that loop, up to row r (0-based)
RECURSIVE MediaRows(_, _, _, _, _)
MediaRows(media_vals, media_hdr, tdict, maps, r) ==
  IF r < MEDIA_FIRST_DATA_ROW - 1 \/ r < MEDIA_HEADER_ROW THEN NoRows
  ELSE MediaRow(MediaRows(media_vals, media_hdr, tdict, maps, r - 1),
                media_vals[r + 1], media_hdr, tdict, maps,
                strip(Cell(media_vals[r + 1], media_hdr.category)))

\* out_matrix: for each bucket in dict order a row of "" and its headers,
\* then its rows, each behind its product id -- for the first n buckets.
\* FlattenTops gives the top-level category of each of these rows.
RECURSIVE Flatten(_, _)
Flatten(acc, n) ==
  IF n = 0 THEN << >>
  ELSE LET pack == acc.buckets[acc.order[n]] IN
       Flatten(acc, n - 1) \o << << "" >> \o pack.headers >>
         \o [i \in 1..Len(pack.rows) |-> pack.pids[i] \o pack.rows[i]]

RECURSIVE FlattenTops(_, _)
FlattenTops(acc, n) ==
  IF n = 0 THEN << >>
  ELSE LET pack == acc.buckets[acc.order[n]] IN
       FlattenTops(acc, n - 1) \o << pack.top >> \o pack.tops

\* whether a failure to read SALES leaves run_step_1 (with the mutant just
\* above it): `except Exception` prints a warning and goes on
SalesFailureEscapes_Uncaught(sales) == ~sales.exists

SalesFailureEscapes(sales) == FALSE

\* start_r = max(media_first - 1, header_idx + 1)
start_r ==
  IF MEDIA_FIRST_DATA_ROW - 1 > MEDIA_HEADER_ROW THEN MEDIA_FIRST_DATA_ROW - 1
  ELSE MEDIA_HEADER_ROW

\* a call of run_step_1 that raised e before it wrote anything
Raised(e, failures) ==
  [raised |-> e, out_matrix |-> << >>, out_tops |-> << >>, failures |-> failures]

\* run_step_1 behind the checks of the tabs, with the parsed MEDIA header
\* and what the loop over the MEDIA rows has built
Step1Build(media_hdr, acc, sales) ==
  IF media_hdr.pid < 0 \/ media_hdr.category < 0 THEN Raised("RuntimeError", << >>)
  ELSE IF SalesFailureEscapes(sales) THEN Raised("WorksheetNotFound", << >>)
  ELSE IF acc.processed = 0 THEN Raised("RuntimeError", acc.failures)
  ELSE [raised |-> "", out_matrix |-> Flatten(acc, Len(acc.order)),
        out_tops |-> FlattenTops(acc, Len(acc.order)), failures |-> acc.failures]

Step1Rows(media_hdr, media, sales, template) ==
  Step1Build(media_hdr,
             MediaRows(media.rows, media_hdr, template_dict(template.rows),
                       sales_mappings(sales), Len(media.rows) - 1),
             sales)

\* run_step_1 up to its writes: the exception it raises ("" for none), the
\* out_matrix it writes to TEM_OUTPUT and the failures it has collected.
\* ref is how open_ref_by_env ended: "unopenable", "main" (the reference
\* document is the main one) or "ok"; a tab is [exists, rows].
run_step_1(ref, basic, media, sales, template) ==
  IF ref = "unopenable" THEN Raised("RuntimeError", << >>)
  ELSE IF ref = "main" THEN Raised("RuntimeError", << >>)
  ELSE IF ~basic.exists \/ ~media.exists THEN Raised("WorksheetNotFound", << >>)
  ELSE IF Len(basic.rows) < BASIC_HEADER_ROW THEN Raised("RuntimeError", << >>)
  ELSE IF Len(media.rows) < MEDIA_HEADER_ROW THEN Raised("RuntimeError", << >>)
  ELSE IF ~template.exists THEN Raised("RuntimeError", << >>)
  ELSE IF Len(template.rows) < 2 THEN Raised("RuntimeError", << >>)
  ELSE IF MEDIA_HEADER_ROW - 1 < 0 \/ MEDIA_HEADER_ROW - 1 >= Len(media.rows)
  THEN Raised("RuntimeError", << >>)
  ELSE Step1Rows(parse_media_header_row(media.rows[MEDIA_HEADER_ROW]),
                 media, sales, template)

\* whether run_step_1 comes to its call of _append_failures (with the mutant
\* just above it): the call is behind the check of processed and the writes
WritesFailures_BeforeCheck(res) == TRUE

WritesFailures(res) == res.raised = ""

\* (an _append_failures that always writes from row 2 down)
_append_failures_BelowHeader(tab, rows) ==
  IF rows = << >> THEN tab
  ELSE [exists |-> TRUE, rows |-> SubSeq(tab.rows, 1, 1) \o rows]

\* _append_failures: below the rows of the Failures tab, or on a new tab
\* under the header row
_append_failures(tab, rows) ==
  IF rows = << >> THEN tab
  ELSE IF tab.exists THEN [tab EXCEPT !.rows = @ \o rows]
  ELSE [exists |-> TRUE,
        rows |-> << << "PID", "Category", "Name", "Reason", "Detail" >> >> \o rows]

(***************************************************************************)
(* automation_steps.py: run_step_2                                         *)
(***************************************************************************)
\* a dict whose order of keys matters: its keys by first insertion, and
\* their values
NoDict == [keys |-> << >>, val |-> << >>]

\* (a dict that keeps the value it has for a key: setdefault for d[k] = v)
OPut_KeepFirst(d, k, v) ==
  IF k \in DOMAIN d.val THEN d
  ELSE [keys |-> Append(d.keys, k), val |-> DictPut(d.val, k, v)]

\* d[k] = v
OPut(d, k, v) ==
  [keys |-> IF k \in DOMAIN d.val THEN d.keys ELSE Append(d.keys, k),
   val |-> DictPut(d.val, k, v)]

\* d1.update(d2), for the first n keys of d2
RECURSIVE OUpdate(_, _, _)
OUpdate(d1, d2, n) ==
  IF n = 0 THEN d1 ELSE OPut(OUpdate(d1, d2, n - 1), d2.keys[n], d2.val[d2.keys[n]])

\* _read_defaults_ws: out.setdefault(cat.strip().lower(), {})[header_key(attr)] = dval
DefaultsRow(out, cat, attr, dval) ==
  IF cat # "" /\ attr # ""
  THEN DictPut(out, lower(strip(cat)),
               OPut(DictGet(out, lower(strip(cat)), NoDict), header_key(attr), dval))
  ELSE out

\* its loop over the rows 1..r (0-based) of vals
RECURSIVE DefaultsRows(_, _, _, _, _)
DefaultsRows(vals, c_idx, a_idx, d_idx, r) ==
  IF r < 1 THEN << >>
  ELSE DefaultsRow(DefaultsRows(vals, c_idx, a_idx, d_idx, r - 1),
                   strip(Cell(vals[r + 1], c_idx)), strip(Cell(vals[r + 1], a_idx)),
                   strip(Cell(vals[r + 1], d_idx)))

DefaultsByColumns(vals, c_idx, a_idx, d_idx) ==
  IF c_idx < 0 \/ a_idx < 0 \/ d_idx < 0 THEN << >>
  ELSE DefaultsRows(vals, c_idx, a_idx, d_idx, Len(vals) - 1)

\* _read_defaults_ws: category -> attribute key -> default value
_read_defaults_ws(vals) ==
  IF vals = << >> THEN << >>
  ELSE DefaultsByColumns(vals,
         _find_col_index(HeaderKeys(vals[1]), "category", << >>),
         _find_col_index(HeaderKeys(vals[1]), "attribute", << "attr", "property" >>),
         _find_col_index(HeaderKeys(vals[1]), "defaultvalue", << "default" >>))

\* for k, d in one.items(): defaults_map.setdefault(k, {}).update(d)
MergeDefaults(defaults_map, one) ==
  [k \in DOMAIN defaults_map \cup DOMAIN one |->
     IF k \in DOMAIN one
     THEN OUpdate(DictGet(defaults_map, k, NoDict), one[k], Len(one[k].keys))
     ELSE defaults_map[k]]

\* defaults_map after the first n worksheets of the reference document; a
\* worksheet is [title, rows]
RECURSIVE MergedDefaults(_, _)
MergedDefaults(sheets, n) ==
  IF n = 0 THEN << >>
  ELSE IF StartsWith(lower(sheets[n].title), "mandatorydefaults_")
  THEN MergeDefaults(MergedDefaults(sheets, n - 1), _read_defaults_ws(sheets[n].rows))
  ELSE MergedDefaults(sheets, n - 1)

\* mand_list: the header keys of the cells of a row that read "mandatory"
MandList(hdr_keys, row) ==
  LET at == IndicesWhere(Len(row),
                         {j \in 1..Len(row) : lower(strip(row[j])) = "mandatory"})
  IN [i \in 1..Len(at) |-> hdr_keys[at[i] + 1]]

CatPropsPut(m, cat_raw, mand_list) ==
  IF cat_raw = "" \/ mand_list = << >> THEN m
  ELSE DictPut(m, lower(strip(cat_raw)), mand_list)

\* catprops_map after the rows 1..r (0-based) of cat_props_vals
RECURSIVE CatPropsRows(_, _)
CatPropsRows(cat_props_vals, r) ==
  IF r < 1 THEN << >>
  ELSE CatPropsPut(CatPropsRows(cat_props_vals, r - 1),
                   strip(Cell(cat_props_vals[r + 1], 0)),
                   MandList(HeaderKeys(cat_props_vals[1]), cat_props_vals[r + 1]))

\* what the loop over the rows of TEM_OUTPUT has so far: current_hdr_keys
\* (<< >> for None), updates and color_ranges_by_col
NoFill == [hdr |-> << >>, updates |-> << >>, spans |-> << >>]

\* the test for a header row of TEM_OUTPUT
IsHeaderRow(row) == lower(strip(Cell(row, 1))) = "category"

\* color_ranges_by_col[j].append((r0, r0 + 1))
ColorAt(spans, j, r0) ==
  IF j >= 0 THEN DictPut(spans, j, Append(DictGet(spans, j, << >>), << r0, r0 + 1 >>))
  ELSE spans

\* the coloring of a row, for the first n attributes of its category
RECURSIVE ColorRow(_, _, _, _, _)
ColorRow(spans, hdr, attrs, r0, n) ==
  IF n = 0 THEN spans
  ELSE ColorAt(ColorRow(spans, hdr, attrs, r0, n - 1),
               _find_col_index(hdr, attrs[n], << >>), r0)

\* `if not cur or overwrite` (with the mutant just above it)
MayFill_Always(cur, overwrite_nonempty) == TRUE

MayFill(cur, overwrite_nonempty) == cur = "" \/ overwrite_nonempty

\* one default of a row: skipped when blank or without a column, else a Cell
\* for column j + 2 when the cell may be filled
FillAt(updates, row, r0, j, dval, overwrite_nonempty) ==
  IF dval # "" /\ j >= 0 /\ MayFill(strip(Cell(row, j + 1)), overwrite_nonempty)
  THEN Append(updates, [row |-> r0 + 1, col |-> j + 2, value |-> dval])
  ELSE updates

\* the defaults of a row, for the first n attributes of its category
RECURSIVE FillRow(_, _, _, _, _, _, _)
FillRow(updates, hdr, d, row, r0, overwrite_nonempty, n) ==
  IF n = 0 THEN updates
  ELSE FillAt(FillRow(updates, hdr, d, row, r0, overwrite_nonempty, n - 1), row, r0,
              _find_col_index(hdr, d.keys[n], << >>), d.val[d.keys[n]],
              overwrite_nonempty)

\* a data row with a product id and the category norm_cat
DataRow(acc, row, r0, norm_cat, catprops_map, defaults_map, overwrite_nonempty) ==
  [hdr |-> acc.hdr,
   updates |-> IF norm_cat \in DOMAIN defaults_map
               THEN FillRow(acc.updates, acc.hdr, defaults_map[norm_cat], row, r0,
                            overwrite_nonempty, Len(defaults_map[norm_cat].keys))
               ELSE acc.updates,
   spans |-> IF norm_cat \in DOMAIN catprops_map
             THEN ColorRow(acc.spans, acc.hdr, catprops_map[norm_cat], r0,
                           Len(catprops_map[norm_cat]))
             ELSE acc.spans]

\* the body of `for r0, row in enumerate(vals)`
TemRow(acc, row, r0, catprops_map, defaults_map, overwrite_nonempty) ==
  IF IsHeaderRow(row) THEN [acc EXCEPT !.hdr = HeaderKeys(Rest(row))]
  ELSE IF acc.hdr = << >> THEN acc
  ELSE IF strip(Cell(row, 0)) = "" \/ strip(Cell(row, 1)) = "" THEN acc
  ELSE DataRow(acc, row, r0, lower(strip(Cell(row, 1))), catprops_map, defaults_map,
               overwrite_nonempty)

\* that loop, for the first n rows
RECURSIVE TemRows(_, _, _, _, _)
TemRows(vals, catprops_map, defaults_map, overwrite_nonempty, n) ==
  IF n = 0 THEN NoFill
  ELSE TemRow(TemRows(vals, catprops_map, defaults_map, overwrite_nonempty, n - 1),
              vals[n], n - 1, catprops_map, defaults_map, overwrite_nonempty)

\* tem_ws.update_cells(updates): the first n cells, in order
RECURSIVE update_cells(_, _, _)
update_cells(vals, updates, n) ==
  IF n = 0 THEN vals
  ELSE [update_cells(vals, updates, n - 1)
          EXCEPT ![updates[n].row][updates[n].col] = updates[n].value]

\* spans.sort(): tuples in lexicographic order
SpanBefore(a, b) == a[1] < b[1] \/ (a[1] = b[1] /\ a[2] <= b[2])

InsertSpan(sorted, x) ==
  LET Lo(y) == SpanBefore(y, x)
      Hi(y) == ~SpanBefore(y, x)
  IN SelectSeq(sorted, Lo) \o << x >> \o SelectSeq(sorted, Hi)

RECURSIVE SortSpans(_, _)
SortSpans(spans, n) ==
  IF n = 0 THEN << >> ELSE InsertSpan(SortSpans(spans, n - 1), spans[n])

MergeNext_Strict(merged, x) ==
  IF x[1] < merged[Len(merged)][2]
  THEN [merged EXCEPT ![Len(merged)] =
          << @[1], IF @[2] >= x[2] THEN @[2] ELSE x[2] >>]
  ELSE Append(merged, x)

\* the loop of _merge: a span that starts at or before the end of the last
\* merged one is joined to it (`if s <= le`, with the mutant just above it)
MergeNext(merged, x) ==
  IF x[1] <= merged[Len(merged)][2]
  THEN [merged EXCEPT ![Len(merged)] =
          << @[1], IF @[2] >= x[2] THEN @[2] ELSE x[2] >>]
  ELSE Append(merged, x)

RECURSIVE MergeSorted(_, _)
MergeSorted(sorted, n) ==
  IF n = 0 THEN << >>
  ELSE IF n = 1 THEN << sorted[1] >>
  ELSE MergeNext(MergeSorted(sorted, n - 1), sorted[n])

\* _merge
_merge(spans) == MergeSorted(SortSpans(spans, Len(spans)), Len(spans))

\* the repeatCell requests: a column and a merged span of rows
ColorRequests(spans_by_col) ==
  UNION {{[col |-> j, startRowIndex |-> _merge(spans_by_col[j])[i][1],
           endRowIndex |-> _merge(spans_by_col[j])[i][2]] :
            i \in 1..Len(_merge(spans_by_col[j]))} : j \in DOMAIN spans_by_col}

\* how run_step_2 ends: it raised ("" for no), and the values of TEM_OUTPUT,
\* the cells it updated and the coloring it asked for
Step2End(raised, vals, updates, requests) ==
  [raised |-> raised, vals |-> vals, updates |-> updates, requests |-> requests]

Step2Fill(vals, acc) ==
  Step2End("", update_cells(vals, acc.updates, Len(acc.updates)), acc.updates,
           ColorRequests(acc.spans))

\* run_step_2: without TEM_OUTPUT it returns; without the cat props tab it
\* raises; on an empty TEM_OUTPUT it returns; else it fills and colors
run_step_2(tem, sheets, cat_props, overwrite_nonempty) ==
  IF ~tem.exists THEN Step2End("", tem.rows, << >>, {})
  ELSE IF ~cat_props.exists THEN Step2End("WorksheetNotFound", tem.rows, << >>, {})
  ELSE IF tem.rows = << >> THEN Step2End("", tem.rows, << >>, {})
  ELSE Step2Fill(tem.rows,
                 TemRows(tem.rows, CatPropsRows(cat_props.rows, Len(cat_props.rows) - 1),
                         MergedDefaults(sheets, Len(sheets)), overwrite_nonempty,
                         Len(tem.rows)))

(***************************************************************************)
(* Bounds of the model.                                                    *)
(***************************************************************************)
MaxRuns == 2        \* clicks of the run button in one session
MaxFiles == 3       \* files dropped on the uploader at one click
MaxInserted == 1    \* whitespace characters added to a header string
MaxCols == 3        \* columns of a header row given to the resolver
MaxCands == 2       \* candidate names given to the resolver

(***************************************************************************)
(* upload_apply.py                                                         *)
(***************************************************************************)
Tabs == {"BASIC", "MEDIA", "SALES"}

\* names of the files a user may drop on the uploader
FileNames ==
  {"basic.xlsx", "Basic_v2.XLSX", "media.xlsx", "sales.xlsx", "x[OK].xlsx"}

\* _target_tab: the tab a file name routes to ("" = None)
_target_tab(filename) ==
  LET low == lower(filename) IN
  IF Contains(low, "basic") THEN "BASIC"
  ELSE IF Contains(low, "media") THEN "MEDIA"
  ELSE IF Contains(low, "sales") THEN "SALES"
  ELSE ""

\* collect_xlsx_files: the keys of {name: BytesIO}, in insertion order
RECURSIVE collect_xlsx_files(_)
collect_xlsx_files(files) ==
  IF files = <<>> THEN <<>>
  ELSE LET out == collect_xlsx_files(SubSeq(files, 1, Len(files) - 1))
           name == files[Len(files)]
       IN IF EndsWith(lower(name), ".xlsx") /\ \A i \in 1..Len(out) : out[i] # name
          THEN Append(out, name)
          ELSE out

\* what read_xlsx_values made of a file: it raised, or the shape of the values
\* ("tiny": at most 1x1)
ParseResults == {"raise", "empty", "tiny", "data"}

\* what the spreadsheet service did to the writes of _write_values_to_sheet
WriteResults == {"ok", "raise"}

\* the log lines apply_uploaded_files adds for one file (the fixed Korean
\* wording of the messages is left out; the tag, tab and file name are kept)
LogsForFile(fname, parsed, wrote) ==
  LET tab == _target_tab(fname) IN
  IF tab = "" THEN << "[SKIP] " \o fname >>
  ELSE IF parsed = "raise" THEN << "[ERROR] " \o tab \o ": " \o fname >>
  ELSE (IF parsed \in {"empty", "tiny"} THEN << "[WARN] " \o tab \o ": small" >> ELSE <<>>)
       \o << "[INFO] " \o tab \o ": parsed shape" >>
       \o (IF parsed = "empty" THEN << "[WARN] " \o tab \o ": skip" >>
           ELSE IF wrote = "ok" THEN << "[OK] " \o tab >>
           ELSE << "[ERROR] " \o tab \o ": " \o fname >>)

\* the file was written to its tab: _write_values_to_sheet got to its last line
FileWritten(fname, parsed, wrote) ==
  _target_tab(fname) # "" /\ parsed \in {"tiny", "data"} /\ wrote = "ok"

\* line 296: any(x.startswith("[OK]") for x in logs)
AnyStartsWithOK(ls) == \E i \in 1..Len(ls) : StartsWith(ls[i], "[OK]")

\* app.py line 290: any("[OK]" in log for log in logs)
AnyContainsOK(ls) == \E i \in 1..Len(ls) : Contains(ls[i], "[OK]")

(***************************************************************************)
(* app.py: the click handler of the run button                             *)
(***************************************************************************)
\* line 281: the page refuses to go on with fewer than three files
EnoughFiles(fd) == Len(fd) >= 3

\* (a handler that forgets to clear the file of the run before)
DownloadAfterClick_Kept(old) == old

\* line 274: st.session_state.download_file = None
DownloadAfterClick(old) == 0

\* the download button is rendered (line 337)
DownloadOffered == automation_success /\ download_file # 0

\* the locals of the click handler, of apply_uploaded_files and of
\* run_all_steps_with_progress go out of scope when the handler ends
locals == <<files_dict, fidx, ok_line, ok_text, written, calls, outcomes, all_success,
            init_failed>>

LocalsGone ==
  /\ files_dict' = <<>>
  /\ fidx' = 1
  /\ ok_line' = FALSE
  /\ ok_text' = FALSE
  /\ written' = {}
  /\ calls' = <<>>
  /\ outcomes' = <<>>
  /\ all_success' = TRUE
  /\ init_failed' = FALSE

\* lines 270-287: the button is enabled with at least one file and a shop code
Click ==
  /\ pc = "idle"
  /\ runId < MaxRuns
  /\ runId' = runId + 1
  /\ upload_success' = FALSE
  /\ automation_success' = FALSE
  /\ download_file' = DownloadAfterClick(download_file)
  /\ returned' = "no"
  /\ step7' = "none yet"
  /\ \E n \in 1..MaxFiles : \E uploaded \in [1..n -> FileNames] : \E opened \in BOOLEAN :
       LET fd == collect_xlsx_files(uploaded) IN
       IF EnoughFiles(fd) /\ opened
       THEN /\ pc' = "apply"
            /\ files_dict' = fd
            /\ UNCHANGED <<fidx, ok_line, ok_text, written, calls, outcomes, all_success,
                           init_failed>>
       ELSE /\ pc' = "idle"
            /\ LocalsGone
  /\ UNCHANGED other_than_app

\* one turn of the loop of apply_uploaded_files
ApplyFile ==
  /\ pc = "apply"
  /\ fidx <= Len(files_dict)
  /\ \E parsed \in ParseResults, wrote \in WriteResults :
       LET fname == files_dict[fidx]
           lines == LogsForFile(fname, parsed, wrote)
       IN /\ ok_line' = (ok_line \/ AnyStartsWithOK(lines))
          /\ ok_text' = (ok_text \/ AnyContainsOK(lines))
          /\ written' = IF FileWritten(fname, parsed, wrote)
                        THEN written \cup {_target_tab(fname)} ELSE written
  /\ fidx' = fidx + 1
  /\ UNCHANGED <<pc, upload_success, automation_success, download_file, runId,
                 files_dict, calls, outcomes, all_success, init_failed, returned, step7>>
  /\ UNCHANGED other_than_app

\* apply_uploaded_files returns (its closing warning, line 297, holds no
\* "[OK]") and the page tests the logs (app.py lines 289-297)
ApplyDone ==
  /\ pc = "apply"
  /\ fidx > Len(files_dict)
  /\ upload_success' = ok_text
  /\ IF ok_text THEN pc' = "construct" /\ UNCHANGED locals
     ELSE pc' = "idle" /\ LocalsGone
  /\ UNCHANGED <<automation_success, download_file, runId, returned, step7>>
  /\ UNCHANGED other_than_app

\* automation = ShopeeAutomation(): on a failed connection the constructor
\* calls st.stop(), which ends the script run
Construct ==
  /\ pc = "construct"
  /\ \E connected \in BOOLEAN :
       IF connected THEN pc' = "init failures" /\ UNCHANGED locals
       ELSE pc' = "idle" /\ LocalsGone
  /\ UNCHANGED <<upload_success, automation_success, download_file, runId, returned, step7>>
  /\ UNCHANGED other_than_app

(***************************************************************************)
(* main_controller.py: run_all_steps_with_progress                         *)
(***************************************************************************)
NumSteps == 6

\* (a loop without the break of line 84)
LoopGoesOn_NoBreak(outcome) == TRUE

\* lines 75-84: the loop goes on to the next step unless the step raised
LoopGoesOn(outcome) == outcome = "ok"

\* lines 55 and 87: the first component of the value returned
ReturnValue(initFailed, allSuccess) == IF initFailed THEN FALSE ELSE allSuccess

\* lines 51-55: the Failures tab is initialized first
InitFailures ==
  /\ pc = "init failures"
  /\ \E ok \in BOOLEAN :
       /\ init_failed' = ~ok
       /\ pc' = IF ok THEN "steps" ELSE "return"
  /\ UNCHANGED <<upload_success, automation_success, download_file, runId, returned, step7,
                 files_dict, fidx, ok_line, ok_text, written, calls, outcomes, all_success>>
  /\ UNCHANGED other_than_app

\* lines 71-84: one turn of the loop over the steps
RunStep ==
  /\ pc = "steps"
  /\ Len(calls) < NumSteps
  /\ \E outcome \in {"ok", "raise"} :
       /\ calls' = Append(calls, Len(calls) + 1)
       /\ outcomes' = Append(outcomes, outcome)
       /\ all_success' = IF outcome = "ok" THEN all_success ELSE FALSE
       /\ pc' = IF LoopGoesOn(outcome) /\ Len(calls') < NumSteps THEN "steps" ELSE "return"
  /\ UNCHANGED <<upload_success, automation_success, download_file, runId, returned, step7,
                 files_dict, fidx, ok_line, ok_text, written, init_failed>>
  /\ UNCHANGED other_than_app

\* the controller returns and the page stores the result (app.py lines 305-313)
Return ==
  /\ pc = "return"
  /\ LET success == ReturnValue(init_failed, all_success) IN
       /\ returned' = IF success THEN "True" ELSE "False"
       /\ automation_success' = success
       /\ IF success THEN pc' = "step7" /\ UNCHANGED locals
          ELSE pc' = "idle" /\ LocalsGone
  /\ UNCHANGED <<upload_success, download_file, runId, step7>>
  /\ UNCHANGED other_than_app

\* app.py lines 316-331: run_step7_generate_download
Step7 ==
  /\ pc = "step7"
  /\ \E r \in {"data", "empty", "raise"} :
       /\ step7' = r
       /\ download_file' = IF r = "data" THEN runId ELSE download_file
       /\ automation_success' = IF r = "empty" THEN FALSE ELSE automation_success
  /\ pc' = "idle"
  /\ LocalsGone
  /\ UNCHANGED <<upload_success, runId, returned>>
  /\ UNCHANGED other_than_app

(***************************************************************************)
(* Header strings that differ in case, whitespace or diacritics.           *)
(***************************************************************************)
HeaderStrings == {"Cafe", "e 1", "SKU"}

Whitespace == {" ", " "}

\* an accented letter, written as one character, and its base letter
Accented == [c \in {"e", "E"} |-> IF c = "e" THEN "é" ELSE "É"]

SwapCase(c) ==
  IF c \in DOMAIN LowerMap THEN LowerMap[c]
  ELSE IF \E u \in DOMAIN LowerMap : LowerMap[u] = c
       THEN CHOOSE u \in DOMAIN LowerMap : LowerMap[u] = c
  ELSE IF c = "é" THEN "É"
  ELSE IF c = "É" THEN "é"
  ELSE c

SetCh(s, i, c) == SubSeq(s, 1, i - 1) \o c \o SubSeq(s, i + 1, Len(s))

\* the case of one letter of hdr_b is changed
EditCase ==
  /\ \E i \in 1..Len(hdr_b) :
       /\ SwapCase(Ch(hdr_b, i)) # Ch(hdr_b, i)
       /\ hdr_b' = SetCh(hdr_b, i, SwapCase(Ch(hdr_b, i)))
  /\ hdr_edits' = hdr_edits \cup {"case"}
  /\ UNCHANGED <<hdr_a, hdr_row, hdr_cands, hdr_res>>
  /\ UNCHANGED other_than_hdr

\* a whitespace character is added to hdr_b
EditAddSpace ==
  /\ Len(hdr_b) < Len(hdr_a) + MaxInserted
  /\ \E i \in 0..Len(hdr_b), w \in Whitespace :
       hdr_b' = SubSeq(hdr_b, 1, i) \o w \o SubSeq(hdr_b, i + 1, Len(hdr_b))
  /\ hdr_edits' = hdr_edits \cup {"space"}
  /\ UNCHANGED <<hdr_a, hdr_row, hdr_cands, hdr_res>>
  /\ UNCHANGED other_than_hdr

\* a whitespace character is taken out of hdr_b
EditDropSpace ==
  /\ \E i \in 1..Len(hdr_b) :
       /\ Ch(hdr_b, i) \in Whitespace
       /\ hdr_b' = SetCh(hdr_b, i, "")
  /\ hdr_edits' = hdr_edits \cup {"space"}
  /\ UNCHANGED <<hdr_a, hdr_row, hdr_cands, hdr_res>>
  /\ UNCHANGED other_than_hdr

\* a letter of hdr_b gets a diacritical mark, or loses it
EditDiacritic ==
  /\ \E i \in 1..Len(hdr_b) :
       \/ /\ Ch(hdr_b, i) \in DOMAIN Accented
          /\ hdr_b' = SetCh(hdr_b, i, Accented[Ch(hdr_b, i)])
       \/ \E c \in DOMAIN Accented :
            /\ Ch(hdr_b, i) = Accented[c]
            /\ hdr_b' = SetCh(hdr_b, i, c)
  /\ hdr_edits' = hdr_edits \cup {"diacritic"}
  /\ UNCHANGED <<hdr_a, hdr_row, hdr_cands, hdr_res>>
  /\ UNCHANGED other_than_hdr

(***************************************************************************)
(* The resolver applied to a header row and a list of candidates.          *)
(***************************************************************************)
HeaderCells == {"Category", "SKU", "Parent SKU", ""}

CandNames == {"sku", "parent sku", "variation sku", "색상"}

SeqsUpTo(S, n) == UNION {[1..k -> S] : k \in 1..n}

\* both resolvers are applied; _find_col_index gets the last candidate as
\* its name and the ones before it as extra_alias
Resolve ==
  /\ ~hdr_res.done
  /\ hdr_res' =
       [done |-> TRUE,
        pick |-> _pick_index_by_candidates(hdr_row, hdr_cands),
        find |-> _find_col_index(HeaderKeys(hdr_row), hdr_cands[Len(hdr_cands)],
                                 SubSeq(hdr_cands, 1, Len(hdr_cands) - 1))]
  /\ UNCHANGED <<hdr_a, hdr_b, hdr_edits, hdr_row, hdr_cands>>
  /\ UNCHANGED other_than_hdr

(***************************************************************************)
(* Step 1: the tabs it may find and the call of run_step_1                 *)
(***************************************************************************)
NoTab == [exists |-> FALSE, rows |-> << >>]
Tab(rows) == [exists |-> TRUE, rows |-> rows]

\* the sequences of at most n different members of S
Picks(S, n) ==
  UNION {{s \in [1..k -> S] : \A i, j \in 1..k : i < j => s[i] # s[j]} : k \in 0..n}

\* BASIC: no tab, too short a tab, and tabs of equal height and different cells
BasicSheets ==
  {NoTab,
   Tab(<< << "basic_info" >> >>),
   Tab(<< << "basic_info", "" >>, << "Product ID", "Product Name" >>,
          << "P1", "Lip Tint" >> >>),
   Tab(<< << "basic_info", "" >>, << "Product ID", "Product Name" >>,
          << "P9", "Kettle" >> >>)}

\* MEDIA: row 1 a title, row 2 the headers, rows 3-5 notes, data from row 6
MediaTitle == << "media_info", "", "", "", "", "", "", "" >>
MediaNote == << "Mandatory", "", "Mandatory", "", "", "", "", "" >>

MediaHeaders ==
  {<< "Product ID", "Product Name", "Category", "Item Image 1",
      "Variation Name1", "Option 1 Name", "Option 1 Image", "Option 2 Name" >>,
   << "et_title_product_id", "Item Name", "CATEGORY ", "Cover Image",
      "Variation", "Note", "Item Image 1", "Item Image 2" >>}

\* a header row without a category column
MediaHeaderNoCategory ==
  << "Product ID", "Product Name", "Group", "Item Image 1",
     "Variation Name1", "Option 1 Name", "Option 1 Image", "Option 2 Name" >>

MediaDataRows ==
  {<< "P1", "Lip Tint", "100 - Beauty/Makeup", "u1", "Color", "Red", "r.png", "Blue" >>,
   << "P2", "Lamp", "Home & Living>Lighting", "u2", "", "One", "", "" >>,
   << " P3 ", "Serum", "BEAUTY | Skincare", "", "Size", "S  M", "u3", "" >>,
   << "P4", "Kite", "Toys/Kites", "u4", "", "Big", "", "" >>,
   << "", "Mask", "Beauty/Masks", "u5", "", "", "", "" >>}

MaxMediaRows == 3   \* data rows of a MEDIA tab

MediaSheet(header, data) ==
  Tab(<< MediaTitle, header, MediaNote, MediaNote, MediaNote >> \o data)

MediaSheets ==
  {MediaSheet(h, d) : h \in MediaHeaders, d \in Picks(MediaDataRows, MaxMediaRows)}

\* MEDIA tabs that stop Step 1
MediaSheetsBad ==
  {NoTab, Tab(<< >>), Tab(<< MediaTitle >>),
   Tab(<< MediaTitle, MediaHeaderNoCategory, MediaNote, MediaNote, MediaNote,
          << "P1", "Lip Tint", "100 - Beauty/Makeup", "u1", "Color", "Red", "r.png", "Blue" >> >>)}

\* SALES: no tab, an empty tab, a tab without a product id column, and two
\* tabs with the SKUs of some products and options
SalesSheets ==
  {NoTab, Tab(<< >>),
   Tab(<< << "Name", "SKU" >>, << "Lip Tint", "S1" >> >>),
   Tab(<< << "Product ID", "Parent SKU", "Variation Name", "SKU" >>,
          << "P1", "PS1", "Red", "S1R" >>,
          << "P1", "PS1", " blue", "S1B" >>,
          << "P3", "", "s m", "S3" >>,
          << "P2", "PS2", "", "" >> >>),
   Tab(<< << "Item ID", "Option", "Child SKU" >>,
          << "P2", "One", "S2" >>,
          << "P4", "Big", "S4" >>,
          << "P1", "RED", "S1y" >> >>)}

\* TemplateDict: a title row, then a top-level category (or a category path)
\* and the headers of its template
TemplateSheets ==
  {Tab(<< << "TopLevel", "1", "2", "3", "4", "5", "6", "7" >>,
          << "Beauty", "Category", "Product Name", "Parent SKU", "Variation Name1",
             "Option for Variation 1", "Image per Variation", "SKU" >>,
          << "Home & Living", "Category", "Product Name", "SKU", "Item Image 1",
             "Item Image 2", "", "" >> >>),
   Tab(<< << "TopLevel", "1", "2", "3", "4" >>,
          << "Toys", "Product Name", "Category", "SKU", "Cover Image" >>,
          << "BEAUTY | Skincare", "SKU", "Option for Variation 1", "Category", "" >>,
          << "", "Category", "", "", "" >>,
          << "toys", "Category", "Parent SKU", "Option for Variation 1",
             "Item Image 1" >> >>)}

TemplateSheetsBad == {NoTab, Tab(<< >>), Tab(<< << "TopLevel", "1" >> >>)}

\* what TEM_OUTPUT and Failures hold before the call
TemTabs == {NoTab, Tab(<< << "", "Category" >>, << "P0", "Old" >> >>)}
FailuresTabs ==
  {NoTab, Tab(<< << "PID", "Category", "Name", "Reason", "Detail" >>,
                 << "P0", "Old", "", "STEP1_ERROR", "" >> >>)}

RefStates == {"ok", "main", "unopenable"}

\* the call of run_step_1 by the controller, with its writes: TEM_OUTPUT is
\* cleared (or added) and holds out_matrix, the failures go under the Failures
\* tab; an exception leaves both as they were
Step1Writes(res) ==
  /\ s1_raised' = res.raised
  /\ s1_failures' = res.failures
  /\ IF res.raised = ""
     THEN /\ tem_tab' = Tab(res.out_matrix)
          /\ tem_tops' = res.out_tops
     ELSE UNCHANGED <<tem_tab, tem_tops>>
  /\ failures_tab' = IF WritesFailures(res)
                     THEN _append_failures(failures_tab, res.failures)
                     ELSE failures_tab

RunStep1 ==
  /\ s1_raised = "not called"
  /\ Step1Writes(run_step_1(ref_doc, basic_tab, media_tab, sales_tab, template_tab))
  /\ UNCHANGED <<ref_doc, basic_tab, media_tab, sales_tab, template_tab>>
  /\ UNCHANGED other_than_s1

(***************************************************************************)
(* Step 2: the tabs it may find and the call of run_step_2                 *)
(***************************************************************************)
\* get_bool_env, on the text of the variable ("" when it is not set)
get_bool_env(v, default) ==
  IF lower(strip(v)) \in {"1", "true", "yes", "y"} THEN TRUE
  ELSE IF lower(strip(v)) \in {"0", "false", "no", "n"} THEN FALSE
  ELSE default

\* values of OVERWRITE_NONEMPTY
OverwriteEnvs == {"", "false", " TRUE"}

\* rows of TEM_OUTPUT as Step 1 and the users of the sheet leave them: header
\* rows (column A blank) with and without Category in column B, and data rows
TemHeaderCells == {<< "", "Category", "Brand", "Warranty Type", "" >>,
                   << "", "Product Name", "Category", "Brand", "" >>}

TemDataCells ==
  {<< "P1", "Beauty/Makeup", "", "", "" >>,
   << "P2", "beauty/makeup ", "Acme", " ", "x" >>,
   << "", "Beauty/Makeup", "", "", "" >>,
   << "P4", "", "", "", "" >>,
   << "P5", "Home", "", "1y", "" >>}

MaxTemRows == 3   \* rows of TEM_OUTPUT

\* TEM_OUTPUT: no tab, an empty tab, or rows that begin with a header row
TemTables ==
  {NoTab, Tab(<< >>)}
    \cup {Tab(t) : t \in {p \in Picks(TemHeaderCells \cup TemDataCells, MaxTemRows) :
                            p # << >> /\ p[1] \in TemHeaderCells}}

\* worksheets of the reference document, with and without defaults
RefWorksheets ==
  {[title |-> "MandatoryDefaults_SG",
    rows |-> << << "Category", "Attribute", "Default Value" >>,
                << "Beauty/Makeup", "Brand", "NoBrand" >>,
                << "beauty/makeup", "Warranty", "" >>,
                << "Home", "", "x" >> >>],
   [title |-> "mandatorydefaults_my",
    rows |-> << << "Attr", "Default", "Category" >>,
                << "Warranty", "2y", "Beauty/Makeup" >>,
                << "brand", "HB", "Home" >>,
                << "색상", "Red", "Beauty/Makeup" >> >>],
   [title |-> "Notes",
    rows |-> << << "Category", "Attribute", "Default Value" >>,
                << "Home", "Warranty", "9y" >> >>]}

MaxWorksheets == 2   \* worksheets of the reference document besides cat props

\* the cat props tab: a category and, under each attribute, its mark
CatPropsTabs ==
  {NoTab, Tab(<< >>),
   Tab(<< << "Category", "Brand", "Warranty", "Color" >>,
          << "Beauty/Makeup", "Mandatory", "Optional", "mandatory" >>,
          << "Home", "", " MANDATORY", "" >> >>)}

\* what the call leaves in the state
Step2Ends(res) ==
  /\ s2_raised' = res.raised
  /\ s2_updates' = res.updates
  /\ color_requests' = res.requests
  /\ tem_tab' = [tem_tab EXCEPT !.rows = res.vals]

\* the call of run_step_2 by the controller
RunStep2 ==
  /\ s2_raised = "not called"
  /\ tem_before' = tem_tab.rows
  /\ Step2Ends(run_step_2(tem_tab, ref_worksheets, cat_props_tab,
                          get_bool_env(overwrite_env, FALSE)))
  /\ UNCHANGED <<ref_worksheets, cat_props_tab, overwrite_env>>
  /\ UNCHANGED other_than_s2

(***************************************************************************)
(* Specifications.                                                         *)
(***************************************************************************)
vars == <<vars_app, vars_hdr, vars_s1, tem_tab, vars_s2, vars_steps, vars_util>>

AppIdle ==
  /\ pc = "idle"
  /\ upload_success = FALSE
  /\ automation_success = FALSE
  /\ download_file = 0
  /\ runId = 0
  /\ files_dict = <<>>
  /\ fidx = 1
  /\ ok_line = FALSE
  /\ ok_text = FALSE
  /\ written = {}
  /\ calls = <<>>
  /\ outcomes = <<>>
  /\ all_success = TRUE
  /\ init_failed = FALSE
  /\ returned = "no"
  /\ step7 = "none yet"

HdrKeyIdle ==
  /\ hdr_a = ""
  /\ hdr_b = ""
  /\ hdr_edits = {}

ResolverIdle ==
  /\ hdr_row = <<>>
  /\ hdr_cands = <<>>
  /\ hdr_res = [done |-> FALSE, pick |-> -1, find |-> -1]

Step1Idle ==
  /\ ref_doc = "ok"
  /\ basic_tab = NoTab
  /\ media_tab = NoTab
  /\ sales_tab = NoTab
  /\ template_tab = NoTab
  /\ tem_tab = NoTab
  /\ tem_tops = <<>>
  /\ failures_tab = NoTab
  /\ s1_raised = "idle"
  /\ s1_failures = <<>>

Step2Idle ==
  /\ ref_worksheets = <<>>
  /\ cat_props_tab = NoTab
  /\ overwrite_env = ""
  /\ tem_before = <<>>
  /\ s2_raised = "idle"
  /\ s2_updates = <<>>
  /\ color_requests = {}

TopCategoryIdle ==
  /\ cat_in = ""
  /\ cat_res = [done |-> FALSE, top |-> "", key |-> "", sheet |-> ""]

RetryIdle ==
  /\ rt_pc = "idle"
  /\ rt_attempt = 1
  /\ rt_calls = 0
  /\ rt_sleeps = 0
  /\ rt_backoffs = 0
  /\ rt_err = [code |-> 0, msg |-> ""]
  /\ rt_sleep_for = 0
  /\ rt_out = [kind |-> "running", value |-> "", err |-> [code |-> 0, msg |-> ""]]

UploadIdle ==
  /\ up_files = <<>>
  /\ up_idx = 1
  /\ up_chunk = 0
  /\ up_grid = [t \in {"BASIC", "MEDIA", "SALES"} |-> << 0, 0 >>]
  /\ up_logs = <<>>
  /\ up_wrote = <<>>
  /\ up_calls = <<>>

FailuresRunIdle ==
  /\ fl_pc = "idle"
  /\ fl_logged = <<>>

MergeIdle ==
  /\ mg_spans = <<>>
  /\ mg_out = [state |-> "idle", merged |-> <<>>]

UtilIdle == TopCategoryIdle /\ RetryIdle /\ UploadIdle /\ FailuresRunIdle /\ MergeIdle

LaterStepsIdle ==
  /\ UtilIdle
  /\ fda_tab = NoTab
  /\ step_overwrite = FALSE
  /\ margin_tab = NoTab
  /\ brand_tab = NoTab
  /\ shop_code = ""
  /\ image_host = ""
  /\ step_before = <<>>
  /\ step_updates = <<>>
  /\ step_raised = "idle"
  /\ step_failures = <<>>
  /\ workbook = <<>>

StepsIdle == Step1Idle /\ Step2Idle /\ LaterStepsIdle

\* the Copy Template page: session state as app.py lines 86-98 set it
InitApp == AppIdle /\ HdrKeyIdle /\ ResolverIdle /\ StepsIdle

NextApp ==
  \/ Click
  \/ ApplyFile
  \/ ApplyDone
  \/ Construct
  \/ InitFailures
  \/ RunStep
  \/ Return
  \/ Step7

SpecApp == InitApp /\ [][NextApp]_vars

\* header_key on two spellings of one header
InitHeaderKey ==
  /\ hdr_a \in HeaderStrings
  /\ hdr_b = hdr_a
  /\ hdr_edits = {}
  /\ ResolverIdle
  /\ AppIdle
  /\ StepsIdle

NextHeaderKey ==
  \/ EditCase
  \/ EditAddSpace
  \/ EditDropSpace
  \/ EditDiacritic

SpecHeaderKey == InitHeaderKey /\ [][NextHeaderKey]_vars

\* the resolver on a header row and a candidate list
InitResolver ==
  /\ hdr_row \in SeqsUpTo(HeaderCells, MaxCols)
  /\ hdr_cands \in SeqsUpTo(CandNames, MaxCands)
  /\ hdr_res = [done |-> FALSE, pick |-> -1, find |-> -1]
  /\ HdrKeyIdle
  /\ AppIdle
  /\ StepsIdle

NextResolver == Resolve

SpecResolver == InitResolver /\ [][NextResolver]_vars

\* run_step_1 on the tabs it may find: either tabs it can work on, or a
\* reference document, a BASIC, a MEDIA or a TemplateDict tab that stops it
GoodBasic ==
  Tab(<< << "basic_info", "" >>, << "Product ID", "Product Name" >>,
         << "P1", "Lip Tint" >> >>)

InitStep1 ==
  /\ AppIdle /\ HdrKeyIdle /\ ResolverIdle /\ Step2Idle /\ LaterStepsIdle
  /\ s1_raised = "not called"
  /\ s1_failures = <<>>
  /\ tem_tops = <<>>
  /\ failures_tab \in FailuresTabs
  /\ \/ /\ ref_doc = "ok"
        /\ basic_tab = GoodBasic
        /\ media_tab \in MediaSheets
        /\ sales_tab \in SalesSheets
        /\ template_tab \in TemplateSheets
        /\ tem_tab = Tab(<< << "", "Category" >>, << "P0", "Old" >> >>)
     \/ /\ ref_doc \in RefStates
        /\ basic_tab \in BasicSheets
        /\ media_tab \in MediaSheetsBad
             \cup {MediaSheet(h, << >>) : h \in MediaHeaders}
        /\ sales_tab = NoTab
        /\ template_tab \in TemplateSheetsBad \cup TemplateSheets
        /\ tem_tab \in TemTabs

NextStep1 == RunStep1

SpecStep1 == InitStep1 /\ [][NextStep1]_vars

\* run_step_2 on a TEM_OUTPUT, the worksheets of the reference document and
\* a setting of OVERWRITE_NONEMPTY
InitStep2 ==
  /\ AppIdle /\ HdrKeyIdle /\ ResolverIdle /\ LaterStepsIdle
  /\ ref_doc = "ok"
  /\ basic_tab = NoTab
  /\ media_tab = NoTab
  /\ sales_tab = NoTab
  /\ template_tab = NoTab
  /\ tem_tops = <<>>
  /\ failures_tab = NoTab
  /\ s1_raised = "idle"
  /\ s1_failures = <<>>
  /\ tem_tab \in TemTables
  /\ ref_worksheets \in Picks(RefWorksheets, MaxWorksheets)
  /\ cat_props_tab \in CatPropsTabs
  /\ overwrite_env \in OverwriteEnvs
  /\ tem_before = <<>>
  /\ s2_raised = "not called"
  /\ s2_updates = <<>>
  /\ color_requests = {}

NextStep2 == RunStep2

SpecStep2 == InitStep2 /\ [][NextStep2]_vars

(***************************************************************************)
(* Claims about the page and the controller (SpecApp).                     *)
(***************************************************************************)
AllOk(os) == \A i \in 1..Len(os) : os[i] = "ok"

\* C1: run_all_steps_with_progress calls Steps 1..6 in that order, each at
\* most once; when the initialization of the Failures tab raised no step is
\* called; no step is called after a step that raised; and the value it
\* returns is True exactly when all six steps were called and none raised.
C1_StepsInOrderUntilFirstFailure ==
  /\ Len(calls) <= NumSteps
  /\ Len(outcomes) = Len(calls)
  /\ \A i \in 1..Len(calls) : calls[i] = i
  /\ init_failed => calls = <<>>
  /\ \A i \in 1..(Len(calls) - 1) : outcomes[i] = "ok"
  /\ pc = "return" =>
       (ReturnValue(init_failed, all_success) <=> (Len(calls) = NumSteps /\ AllOk(outcomes)))

\* C1, its case: Step 3 raised after Steps 1 and 2 returned, and the
\* controller is about to return False
C1_Witness ==
  /\ pc = "return"
  /\ calls = <<1, 2, 3>>
  /\ outcomes = <<"ok", "ok", "raise">>
  /\ ~ReturnValue(init_failed, all_success)

\* C2: the download button is offered only when the latest click of the run
\* button passed the upload, had all of Steps 1-6 return and got a file from
\* Step 7, and the file offered is the one that click produced (never the
\* file of an earlier run).
C2_DownloadOnlyAfterFullSuccess ==
  DownloadOffered =>
    /\ pc = "idle"
    /\ upload_success
    /\ returned = "True"
    /\ step7 = "data"
    /\ download_file = runId

\* C2, its case: the button is offered after the second click
C2_Witness == DownloadOffered /\ runId = 2

\* run_all_steps_with_progress has been called in this run
AutomationCalled == pc \in {"steps", "return", "step7"}

\* C3: the automation is called only when each of BASIC, MEDIA and SALES
\* received a successful write from a file of this run.
C3_AutomationOnlyAfterAllThreeTabs == AutomationCalled => written = Tabs

(***************************************************************************)
(* Claims about the header resolver (SpecHeaderKey, SpecResolver).         *)
(***************************************************************************)
\* the resolver finds the column of a header under both spellings
ResolverAgrees(a, b, name) ==
  /\ _pick_index_by_candidates(<<"Category", a>>, <<name>>)
       = _pick_index_by_candidates(<<"Category", b>>, <<name>>)
  /\ _find_col_index(HeaderKeys(<<"Category", a>>), name, <<>>)
       = _find_col_index(HeaderKeys(<<"Category", b>>), name, <<>>)

\* C4 (as stated): two header strings that differ only in letter case, in
\* whitespace or in diacritical marks have the same header_key, and the
\* resolver finds the same column for both.
C4_SameKeyUpToCaseSpaceDiacritics ==
  /\ header_key(hdr_a) = header_key(hdr_b)
  /\ ResolverAgrees(hdr_a, hdr_b, hdr_a)

\* C4 (amended): two header strings that differ only in letter case or in
\* whitespace have the same header_key, and the resolver finds the same
\* column for both.
C4_SameKeyUpToCaseAndSpace ==
  "diacritic" \notin hdr_edits =>
    /\ header_key(hdr_a) = header_key(hdr_b)
    /\ ResolverAgrees(hdr_a, hdr_b, hdr_a)

\* C4, its case: a spelling that differs in both case and whitespace
C4_Witness ==
  /\ hdr_edits = {"case", "space"}
  /\ lower(hdr_b) # lower(hdr_a)
  /\ hdr_b # lower(hdr_b)

\* the claim of C5 about one returned index r
ExactBeforeSubstring(keys, cks, r) ==
  LET IsExact(i) == \E c \in 1..Len(cks) : keys[i] = cks[c]
      IsSub(i) == \E c \in 1..Len(cks) : cks[c] # "" /\ Contains(keys[i], cks[c])
      ExactExists == \E i \in 1..Len(keys) : IsExact(i)
  IN /\ r \in -1..(Len(keys) - 1)
     /\ ExactExists => (r >= 0 /\ IsExact(r + 1))
     /\ (r >= 0 /\ ~IsExact(r + 1)) => (~ExactExists /\ IsSub(r + 1))
     /\ (r = -1) <=> ~(\E i \in 1..Len(keys) : IsSub(i))

\* C5: when some column key equals some candidate key, both resolvers return
\* a column whose key equals a candidate; a column that only contains a
\* candidate is returned only when no column equals one; and -1 is returned
\* exactly when no column key contains a non-empty candidate key.
C5_ExactBeforeSubstring ==
  hdr_res.done =>
    /\ ExactBeforeSubstring(HeaderKeys(hdr_row), HeaderKeys(hdr_cands), hdr_res.pick)
    /\ ExactBeforeSubstring(HeaderKeys(hdr_row), HeaderKeys(hdr_cands), hdr_res.find)

(***************************************************************************)
(* Claims about Step 1 (SpecStep1).                                        *)
(***************************************************************************)
\* the rows of TEM_OUTPUT that are header rows: column A blank
TemHeaderRows == {i \in 1..Len(tem_tab.rows) : tem_tab.rows[i][1] = ""}

\* the header row of the block that row i of TEM_OUTPUT is in
BlockOf(i) == CHOOSE h \in TemHeaderRows : h <= i /\ \A g \in TemHeaderRows : g <= i => g <= h

\* the top-level categories of the MEDIA data rows that Step 1 makes rows of:
\* product id and category not blank, a template found, an option named
MediaTops ==
  LET media_hdr == parse_media_header_row(media_tab.rows[MEDIA_HEADER_ROW])
      tdict == template_dict(template_tab.rows)
      Pid(r) == strip(Cell(media_tab.rows[r], media_hdr.pid))
      Cat(r) == strip(Cell(media_tab.rows[r], media_hdr.category))
      Found(r) == DictGet(tdict, header_key(top_of_category(Cat(r))), << >>) # << >>
                  \/ DictGet(tdict, header_key(Cat(r)), << >>) # << >>
  IN {top_of_category(Cat(r)) :
        r \in {q \in (start_r + 1)..Len(media_tab.rows) :
                 /\ Pid(q) # "" /\ Cat(q) # "" /\ Found(q)
                 /\ OptionsOf(media_tab.rows[q], media_hdr) # << >>}}

\* C6: after a Step 1 that did not raise, TEM_OUTPUT is a sequence of blocks,
\* one for each top-level category among the MEDIA rows it made rows of: it
\* starts with a header row, every header row is followed by at least one data
\* row, every data row is of the category of the header row above it, and no
\* two header rows are of the same category.
C6_OneBlockPerTopCategory ==
  s1_raised = "" =>
    LET n == Len(tem_tab.rows) IN
    /\ 1 \in TemHeaderRows
    /\ \A h \in TemHeaderRows : h < n /\ h + 1 \notin TemHeaderRows
    /\ \A i \in 1..n : tem_tops[i] = tem_tops[BlockOf(i)]
    /\ \A g, h \in TemHeaderRows : g # h => tem_tops[g] # tem_tops[h]
    /\ {tem_tops[h] : h \in TemHeaderRows} = MediaTops

\* Beauty, Home & Living, Beauty in MEDIA: two blocks, the Beauty rows together
C6_Witness ==
  /\ s1_raised = ""
  /\ Len(media_tab.rows) = 8
  /\ << media_tab.rows[6][1], media_tab.rows[7][1], media_tab.rows[8][1] >>
       = << "P1", "P2", " P3 " >>
  /\ Len(tem_tab.rows) = 6
  /\ [i \in 1..6 |-> tem_tab.rows[i][1]] = << "", "P1", "P1", "P3", "", "P2" >>
  /\ tem_tops = << "beauty", "beauty", "beauty", "beauty",
                   "home & living", "home & living" >>

\* C7: there are two BASIC tabs of the same number of rows and different
\* cells for which Step 1, on the same MEDIA, SALES and TemplateDict, writes
\* different TEM_OUTPUT tables (the tabs at hand and all those of the model
\* are tried).
C7_BasicRowsShapeOutput ==
  \E b1, b2 \in BasicSheets \cup {basic_tab} :
    /\ b1.exists /\ b2.exists /\ Len(b1.rows) = Len(b2.rows) /\ b1 # b2
    /\ \E m \in MediaSheets \cup {media_tab}, s \in SalesSheets \cup {sales_tab},
          t \in TemplateSheets \cup {template_tab} :
         LET r1 == run_step_1("ok", b1, m, s, t)
             r2 == run_step_1("ok", b2, m, s, t)
         IN r1.raised = "" /\ r2.raised = "" /\ r1.out_matrix # r2.out_matrix

\* Step 1 on the tabs at hand, but for a SALES tab that is missing or empty
WithoutSales(sales) ==
  run_step_1(ref_doc, basic_tab, media_tab, sales, template_tab)

\* the columns of TEM_OUTPUT under the headers that the header row above row i
\* resolves "parent sku" and "sku" to (1-based; column A holds the product id)
SkuColumns(i) ==
  LET keys == HeaderKeys(Tail(tem_tab.rows[BlockOf(i)])) IN
  {c + 2 : c \in {_find_col_index(keys, "parent sku", << >>),
                  _find_col_index(keys, "sku", << >>)} \ {-1}}

\* C8: Step 1 without a SALES tab, or with an empty one, raises exactly when
\* it raises with the SALES tab at hand, and when it does not raise it writes
\* the same TEM_OUTPUT rows, cell for cell, except that the cells under the
\* Parent SKU and SKU headers are blank.
C8_SalesOptional ==
  s1_raised \notin {"not called", "idle"} =>
    \A sales \in {NoTab, Tab(<< >>)} :
      LET r0 == WithoutSales(sales) IN
      /\ r0.raised = s1_raised
      /\ s1_raised = "" =>
           /\ Len(r0.out_matrix) = Len(tem_tab.rows)
           /\ \A i \in 1..Len(tem_tab.rows) :
                /\ Len(r0.out_matrix[i]) = Len(tem_tab.rows[i])
                /\ \A c \in 1..Len(tem_tab.rows[i]) :
                     r0.out_matrix[i][c] =
                       IF i \notin TemHeaderRows /\ c \in SkuColumns(i)
                       THEN "" ELSE tem_tab.rows[i][c]

\* a SALES tab gave SKUs to the rows, which the run without it leaves blank
C8_Witness ==
  /\ s1_raised = ""
  /\ sales_tab.exists
  /\ tem_tab.rows # WithoutSales(NoTab).out_matrix
  /\ WithoutSales(NoTab).raised = ""

\* the failures the claim C9 lists, as the tabs show them
NoRowProcessed ==
  /\ media_tab.exists /\ Len(media_tab.rows) >= MEDIA_HEADER_ROW
  /\ template_tab.exists /\ Len(template_tab.rows) >= 2
  /\ LET media_hdr == parse_media_header_row(media_tab.rows[MEDIA_HEADER_ROW]) IN
       /\ media_hdr.pid >= 0 /\ media_hdr.category >= 0
       /\ MediaRows(media_tab.rows, media_hdr, template_dict(template_tab.rows),
                    sales_mappings(sales_tab), Len(media_tab.rows) - 1).processed = 0

StopsStep1 ==
  \/ ref_doc = "main"
  \/ basic_tab.exists /\ Len(basic_tab.rows) < BASIC_HEADER_ROW
  \/ media_tab.exists /\ Len(media_tab.rows) < MEDIA_HEADER_ROW
  \/ ~template_tab.exists
  \/ template_tab.exists /\ Len(template_tab.rows) < 2
  \/ /\ media_tab.exists /\ Len(media_tab.rows) >= MEDIA_HEADER_ROW
     /\ LET media_hdr == parse_media_header_row(media_tab.rows[MEDIA_HEADER_ROW]) IN
          media_hdr.pid < 0 \/ media_hdr.category < 0
  \/ NoRowProcessed

\* C9 as stated: on each of these failures run_step_1 raises RuntimeError and
\* leaves TEM_OUTPUT and Failures as they were.
C9_RaisesRuntimeErrorWritesNothing ==
  [][RunStep1 /\ StopsStep1 =>
       s1_raised' = "RuntimeError" /\ UNCHANGED <<tem_tab, failures_tab>>]_vars

\* C9, amended: on each of these failures run_step_1 raises and leaves
\* TEM_OUTPUT and Failures as they were; what it raises is RuntimeError,
\* unless the reference document opens, is not the main one and the BASIC or
\* the MEDIA tab is missing: then it is WorksheetNotFound.
C9_RaisesAndWritesNothing ==
  [][RunStep1 /\ StopsStep1 =>
       /\ s1_raised' = IF ref_doc = "ok" /\ (~basic_tab.exists \/ ~media_tab.exists)
                       THEN "WorksheetNotFound" ELSE "RuntimeError"
       /\ UNCHANGED <<tem_tab, failures_tab>>]_vars

\* no MEDIA row was processed, failures were collected and not written
C9_Witness ==
  /\ s1_raised = "RuntimeError"
  /\ s1_failures # << >>
  /\ NoRowProcessed
  /\ failures_tab \in FailuresTabs

(***************************************************************************)
(* Claims about Step 2 (SpecStep2).                                        *)
(***************************************************************************)
\* a row that run_step_2 is to leave alone: a header row, or a row with a
\* blank product id or a blank category
NotToFill(row) ==
  IsHeaderRow(row) \/ strip(Cell(row, 0)) = "" \/ strip(Cell(row, 1)) = ""

\* C10: with OVERWRITE_NONEMPTY unset or false, after run_step_2 every cell
\* of TEM_OUTPUT that was not blank before the step, and every cell of a
\* header row or of a row with a blank product id or category, holds what it
\* held before; no row or cell is added or removed.
C10_FillsOnlyBlankCells ==
  (s2_raised \notin {"not called", "idle"} /\ lower(strip(overwrite_env)) \in {"", "false"}) =>
    /\ Len(tem_tab.rows) = Len(tem_before)
    /\ \A r \in 1..Len(tem_before) :
         /\ Len(tem_tab.rows[r]) = Len(tem_before[r])
         /\ \A c \in 1..Len(tem_before[r]) :
              (strip(tem_before[r][c]) # "" \/ NotToFill(tem_before[r]))
                => tem_tab.rows[r][c] = tem_before[r][c]

\* a blank cell was filled and a cell that holds a value was kept, though the
\* step would have replaced it had OVERWRITE_NONEMPTY been true
C10_Witness ==
  /\ s2_raised = ""
  /\ overwrite_env = ""
  /\ s2_updates # << >>
  /\ tem_tab.rows # tem_before
  /\ LET forced == run_step_2(Tab(tem_before), ref_worksheets, cat_props_tab, TRUE).updates
     IN \E i \in 1..Len(forced) : strip(tem_before[forced[i].row][forced[i].col]) # ""

\* the cell is inside the range of one of the coloring requests (row and col
\* 1-based, as in a Cell; a request names a column j for sheet column j + 2)
Colored(row, col) ==
  \E q \in color_requests :
    q.col + 2 = col /\ q.startRowIndex <= row - 1 /\ row - 1 < q.endRowIndex

\* C11: every cell that run_step_2 writes a default to is one of the cells it
\* colors as mandatory, that is a cell of a column that cat props marks
\* Mandatory for the category of the row.
C11_FillsMandatoryColumnsOnly ==
  s2_raised = "" =>
    \A i \in 1..Len(s2_updates) : Colored(s2_updates[i].row, s2_updates[i].col)

\* the default that row r (1-based, below the header) of worksheet n of the
\* reference document gives: category and attribute as the step compares them
\* (trimmed and lower-cased, and as a header key), and the trimmed value
GivenAt(n, r) ==
  LET vals == ref_worksheets[n].rows
      keys == HeaderKeys(vals[1])
      Col(name, alias) == Cell(vals[r], _find_col_index(keys, name, alias))
  IN [cat |-> lower(strip(Col("category", << >>))),
      attr |-> header_key(strip(Col("attribute", << "attr", "property" >>))),
      dval |-> strip(Col("defaultvalue", << "default" >>)),
      named |-> strip(Col("category", << >>)) # ""
                /\ strip(Col("attribute", << "attr", "property" >>)) # ""]

\* the rows of the MandatoryDefaults_* tables that give a default, as
\* << worksheet, row >>
GivenRows ==
  {p \in UNION {{<< n, r >> : r \in 2..Len(ref_worksheets[n].rows)} :
                  n \in {m \in 1..Len(ref_worksheets) :
                           StartsWith(lower(ref_worksheets[m].title), "mandatorydefaults_")}} :
     GivenAt(p[1], p[2]).named}

GivenFor(c, a) ==
  {p \in GivenRows : GivenAt(p[1], p[2]).cat = c /\ GivenAt(p[1], p[2]).attr = a}

\* the value read last for a category and an attribute
LastGiven(c, a) ==
  LET p == CHOOSE q \in GivenFor(c, a) :
             \A o \in GivenFor(c, a) : o[1] < q[1] \/ (o[1] = q[1] /\ o[2] <= q[2])
  IN GivenAt(p[1], p[2]).dval

\* the data rows of TEM_OUTPUT that Step 2 looks at, with the keys of the
\* header row above each: [row, hdr]
FilledRows ==
  LET Hdrs(i) == {h \in 1..i : IsHeaderRow(tem_before[h])}
      Top(i) == CHOOSE h \in Hdrs(i) : \A g \in Hdrs(i) : g <= h
  IN {[row |-> i, hdr |-> HeaderKeys(Rest(tem_before[Top(i)]))] :
        i \in {k \in 1..Len(tem_before) : Hdrs(k) # {} /\ ~NotToFill(tem_before[k])}}

\* C12: the defaults Step 2 works with are, for each category, the union of
\* the attributes that the MandatoryDefaults_* tables give for it, each with
\* the value read last (later worksheet, later row); the cells Step 2 writes
\* are exactly those of the attributes whose last value is not blank (and
\* whose column exists and may be filled), each with that value.
C12_MergesDefaultsLastWins ==
  (s2_raised = "" /\ tem_before # << >>) =>
    LET merged == MergedDefaults(ref_worksheets, Len(ref_worksheets))
        Attrs(c) == {GivenAt(p[1], p[2]).attr :
                       p \in {q \in GivenRows : GivenAt(q[1], q[2]).cat = c}}
        cats == {GivenAt(p[1], p[2]).cat : p \in GivenRows}
        Expected(f) ==
          LET row == tem_before[f.row]
              c == lower(strip(Cell(row, 1)))
          IN {[row |-> f.row, col |-> _find_col_index(f.hdr, a, << >>) + 2,
               value |-> LastGiven(c, a)] :
                a \in {b \in (IF c \in cats THEN Attrs(c) ELSE {}) :
                         /\ LastGiven(c, b) # ""
                         /\ _find_col_index(f.hdr, b, << >>) >= 0
                         /\ MayFill(strip(Cell(row, _find_col_index(f.hdr, b, << >>) + 1)),
                                    get_bool_env(overwrite_env, FALSE))}}
    IN /\ DOMAIN merged = cats
       /\ \A c \in cats :
            /\ DOMAIN merged[c].val = Attrs(c)
            /\ \A a \in Attrs(c) : merged[c].val[a] = LastGiven(c, a)
       /\ {s2_updates[i] : i \in 1..Len(s2_updates)} = UNION {Expected(f) : f \in FilledRows}

\* Warranty is given for beauty/makeup in two tables, first as 2y and last as
\* blank: the Brand of the row is filled and its Warranty Type is not
C12_Witness ==
  /\ s2_raised = ""
  /\ Len(ref_worksheets) = 2
  /\ ref_worksheets[1].title = "mandatorydefaults_my"
  /\ ref_worksheets[2].title = "MandatoryDefaults_SG"
  /\ Cardinality(GivenFor("beauty/makeup", "warranty")) = 2
  /\ LastGiven("beauty/makeup", "warranty") = ""
  /\ Len(tem_before) >= 2
  /\ tem_before[1] = << "", "Category", "Brand", "Warranty Type", "" >>
  /\ tem_before[2] = << "P1", "Beauty/Makeup", "", "", "" >>
  /\ \E i \in 1..Len(s2_updates) : s2_updates[i] = [row |-> 2, col |-> 3, value |-> "NoBrand"]
  /\ \A i \in 1..Len(s2_updates) : ~(s2_updates[i].row = 2 /\ s2_updates[i].col = 4)

(***************************************************************************)
(* automation_steps.py: run_step_3                                         *)
(***************************************************************************)
\* get_env("FDA_HEADER_NAME", "FDA Registration No.") and FDA_CODE
FDA_HEADER_NAME == "FDA Registration No."
FDA_CODE == "10-1-9999999"

\* target_categories: the first cells of the rows of column A that are not
\* blank, trimmed and lower-cased
target_categories(fda_vals_2d) ==
  {lower(strip(fda_vals_2d[i][1])) :
     i \in {k \in 1..Len(fda_vals_2d) :
              fda_vals_2d[k] # << >> /\ strip(fda_vals_2d[k][1]) # ""}}

\* `if category_val_normalized and category_val_normalized in
\* target_categories` (with the mutant just above it)
IsTarget_Any(category_val_normalized, targets) == TRUE

IsTarget(category_val_normalized, targets) ==
  category_val_normalized # "" /\ category_val_normalized \in targets

\* what the loop over the rows of TEM_OUTPUT has so far: current_keys (<< >>
\* for None), col_category_B, col_fda_B and updates
NoStamp == [keys |-> << >>, cat |-> -1, fda |-> -1, updates |-> << >>]

\* a row with a product id under a header with both columns
StampRow(acc, row, r0, targets, overwrite) ==
  IF IsTarget(lower(strip(Cell(row, acc.cat + 1))), targets)
     /\ (strip(Cell(row, acc.fda + 1)) = "" \/ overwrite)
  THEN [acc EXCEPT !.updates =
          Append(@, [row |-> r0 + 1, col |-> acc.fda + 2, value |-> FDA_CODE])]
  ELSE acc

\* the body of `for r0, row in enumerate(vals)`
FdaRow(acc, row, r0, targets, overwrite) ==
  IF IsHeaderRow(row)
  THEN [acc EXCEPT !.keys = HeaderKeys(Rest(row)),
                   !.cat = _find_col_index(HeaderKeys(Rest(row)), "category", << >>),
                   !.fda = _find_col_index(HeaderKeys(Rest(row)), FDA_HEADER_NAME, << >>)]
  ELSE IF acc.keys = << >> \/ acc.fda < 0 \/ acc.cat < 0 THEN acc
  ELSE IF strip(Cell(row, 0)) = "" THEN acc
  ELSE StampRow(acc, row, r0, targets, overwrite)

\* that loop, for the first n rows
RECURSIVE FdaRows(_, _, _, _)
FdaRows(vals, targets, overwrite, n) ==
  IF n = 0 THEN NoStamp
  ELSE FdaRow(FdaRows(vals, targets, overwrite, n - 1), vals[n], n - 1, targets, overwrite)

\* how a step that fills TEM_OUTPUT ends: it raised ("" for no), the values
\* of TEM_OUTPUT, the cells it updated and the rows it adds to Failures
StepEnd(raised, vals, updates, failures) ==
  [raised |-> raised, vals |-> update_cells(vals, updates, Len(updates)),
   updates |-> updates, failures |-> failures]

\* run_step_3: without the tab of categories or without TEM_OUTPUT it
\* returns; on an empty TEM_OUTPUT it returns; else it stamps
run_step_3(tem, fda, overwrite) ==
  IF ~fda.exists \/ ~tem.exists \/ tem.rows = << >>
  THEN StepEnd("", tem.rows, << >>, << >>)
  ELSE StepEnd("", tem.rows,
               FdaRows(tem.rows, target_categories(fda.rows), overwrite,
                       Len(tem.rows)).updates, << >>)

(***************************************************************************)
(* Step 3: the tabs it may find and the call of run_step_3                 *)
(***************************************************************************)
\* column A of TH Cos: a title, categories, an empty row
FdaTabs ==
  {NoTab, Tab(<< >>),
   Tab(<< << "Category" >>, << " Beauty/Makeup" >>, << >>, << "  " >> >>),
   Tab(<< << "HOME" >>, << "beauty/makeup" >> >>)}

\* header rows with the FDA column in different places, and without it
FdaHeaderCells ==
  {<< "", "Category", "FDA Registration No.", "SKU" >>,
   << "", "Category", "SKU", "FDA Registration No. (TH)" >>,
   << "", "Category", "SKU", "Brand" >>}

FdaDataCells ==
  {<< "P1", "Beauty/Makeup", "", "" >>,
   << "P2", "beauty/makeup ", "old", "kept" >>,
   << "", "Beauty/Makeup", "", "" >>,
   << " P4", "Home", " ", "x" >>,
   << "P5", "Toys", "", "" >>}

\* a TEM_OUTPUT of these rows: no tab, an empty tab, or rows under a header
TablesUpTo(headers, data, n) ==
  {NoTab, Tab(<< >>)}
    \cup {Tab(t) : t \in {p \in Picks(headers \cup data, n) :
                            p # << >> /\ p[1] \in headers}}

TablesOf(headers, data) == TablesUpTo(headers, data, MaxTemRows)

\* what the call of a step leaves in the state
StepEnds(res) ==
  /\ step_before' = tem_tab.rows
  /\ step_raised' = res.raised
  /\ step_updates' = res.updates
  /\ step_failures' = res.failures
  /\ tem_tab' = [tem_tab EXCEPT !.rows = res.vals]
  /\ failures_tab' = IF res.raised = "" THEN _append_failures(failures_tab, res.failures)
                     ELSE failures_tab

\* what no step after Step 2 changes
other_than_steps ==
  <<vars_app, vars_hdr, vars_s2, ref_doc, basic_tab, media_tab, sales_tab,
    template_tab, tem_tops, s1_raised, s1_failures, fda_tab, step_overwrite,
    margin_tab, brand_tab, shop_code, image_host, vars_util>>

\* the call of run_step_3
RunStep3 ==
  /\ step_raised = "not called"
  /\ StepEnds(run_step_3(tem_tab, fda_tab, step_overwrite))
  /\ UNCHANGED workbook
  /\ UNCHANGED other_than_steps

\* the tabs of Steps 1 and 2 and the locals of the page play no part
BeforeLaterSteps ==
  /\ AppIdle /\ HdrKeyIdle /\ ResolverIdle /\ Step2Idle /\ UtilIdle
  /\ ref_doc = "ok"
  /\ media_tab = NoTab
  /\ sales_tab = NoTab
  /\ template_tab = NoTab
  /\ tem_tops = <<>>
  /\ s1_raised = "idle"
  /\ s1_failures = <<>>
  /\ step_before = <<>>
  /\ step_updates = <<>>
  /\ step_raised = "not called"
  /\ step_failures = <<>>
  /\ workbook = <<>>

\* run_step_3 on a TEM_OUTPUT and a tab of categories; the controller calls
\* it with overwrite=True, the default of the argument is False
InitStep3 ==
  /\ BeforeLaterSteps
  /\ basic_tab = NoTab
  /\ failures_tab = NoTab
  /\ margin_tab = NoTab
  /\ brand_tab = NoTab
  /\ shop_code = ""
  /\ image_host = ""
  /\ tem_tab \in TablesOf(FdaHeaderCells, FdaDataCells)
  /\ fda_tab \in FdaTabs
  /\ step_overwrite \in BOOLEAN

NextStep3 == RunStep3

SpecStep3 == InitStep3 /\ [][NextStep3]_vars

(***************************************************************************)
(* Claims about Step 3 (SpecStep3).                                        *)
(***************************************************************************)
\* the header row above row i of the TEM_OUTPUT the step was called on (0 =
\* none), and the sheet column of the FDA header in it (1 = none)
HeaderAbove(i) ==
  LET hs == {h \in 1..i : IsHeaderRow(step_before[h])}
  IN IF hs = {} THEN 0 ELSE CHOOSE h \in hs : \A g \in hs : g <= h

FdaColumn(i) ==
  _find_col_index(HeaderKeys(Rest(step_before[HeaderAbove(i)])), FDA_HEADER_NAME, << >>) + 2

\* the rows the claim C13 is about
ToStamp(i) ==
  /\ ~IsHeaderRow(step_before[i])
  /\ HeaderAbove(i) > 0
  /\ FdaColumn(i) > 1
  /\ strip(step_before[i][1]) # ""
  /\ lower(strip(step_before[i][2])) \in target_categories(fda_tab.rows) \ {""}

\* C13: after run_step_3 every data row with a product id, a category of the
\* allow-list (trimmed, lower-cased) and an FDA column in the header of its
\* block holds 10-1-9999999 in that column -- with overwrite=False only when
\* the cell was blank, a cell that was not blank being left as it was -- and
\* every other cell of TEM_OUTPUT is as it was.
C13_StampsAllowListedRowsOnly ==
  (step_raised = "" /\ fda_tab.exists) =>
    /\ Len(tem_tab.rows) = Len(step_before)
    /\ \A i \in 1..Len(step_before) :
         /\ Len(tem_tab.rows[i]) = Len(step_before[i])
         /\ \A c \in 1..Len(step_before[i]) :
              tem_tab.rows[i][c] =
                IF ToStamp(i) /\ c = FdaColumn(i)
                   /\ (step_overwrite \/ strip(step_before[i][c]) = "")
                THEN FDA_CODE ELSE step_before[i][c]

\* with overwrite=True a row of the allow-list had its FDA cell replaced, and
\* a row that is not of the allow-list stands beside it
C13_Witness ==
  /\ step_raised = "" /\ fda_tab.exists /\ step_overwrite
  /\ \E i \in 1..Len(step_before) :
       /\ ToStamp(i)
       /\ strip(step_before[i][FdaColumn(i)]) # ""
       /\ tem_tab.rows[i][FdaColumn(i)] = FDA_CODE
  /\ \E i \in 1..Len(step_before) :
       /\ ~IsHeaderRow(step_before[i]) /\ ~ToStamp(i) /\ strip(step_before[i][1]) # ""

(***************************************************************************)
(* automation_steps.py: run_step_4                                         *)
(***************************************************************************)
\* int(get_env("STEP4_STOCK_VALUE", "1000")), int(get_env("STEP4_DTOS_VALUE", "1"))
STOCK_VALUE == 1000
DTOS_VALUE == 1

\* sku_to_weight and sku_to_brand_name after the rows 1..r (0-based) of
\* margin_vals; ix holds the three column indices picked from its header
RECURSIVE MarginRows(_, _, _)
MarginRows(margin_vals, ix, r) ==
  IF r < 1 THEN [sku_to_weight |-> << >>, sku_to_brand_name |-> << >>]
  ELSE LET m == MarginRows(margin_vals, ix, r - 1)
           row == margin_vals[r + 1]
           sku == strip(Cell(row, ix.sku))
           m1 == IF 0 <= ix.wgt /\ ix.wgt < Len(row)
                 THEN [m EXCEPT !.sku_to_weight = DictPut(@, sku, strip(row[ix.wgt + 1]))]
                 ELSE m
       IN IF sku = "" THEN m
          ELSE IF 0 <= ix.brandn /\ ix.brandn < Len(row)
          THEN [m1 EXCEPT !.sku_to_brand_name = DictPut(@, sku, strip(row[ix.brandn + 1]))]
          ELSE m1

\* the two maps of MARGIN: empty without the tab, without rows or without an
\* SKU column
margin_maps(margin) ==
  LET mh == margin.rows[1]
      ix == [sku |-> _pick_index_by_candidates(mh, << "sku", "seller_sku" >>),
             brandn |-> _pick_index_by_candidates(mh, << "brand", "brand name" >>),
             wgt |-> _pick_index_by_candidates(mh, << "weight", "package weight" >>)]
  IN IF margin.exists /\ margin.rows # << >> /\ ix.sku >= 0
     THEN MarginRows(margin.rows, ix, Len(margin.rows) - 1)
     ELSE [sku_to_weight |-> << >>, sku_to_brand_name |-> << >>]

\* brand_name_to_code after the rows 1..r (0-based) of brand_vals
RECURSIVE BrandRows(_, _)
BrandRows(brand_vals, r) ==
  IF r < 1 THEN << >>
  ELSE IF Len(brand_vals[r + 1]) < 3 \/ strip(brand_vals[r + 1][2]) = ""
  THEN BrandRows(brand_vals, r - 1)
  ELSE DictPut(BrandRows(brand_vals, r - 1),
               CollapseSpaces(lower(strip(brand_vals[r + 1][2]))),
               strip(brand_vals[r + 1][3]))

brand_name_to_code(brand) ==
  IF brand.exists /\ brand.rows # << >> /\ Len(brand.rows[1]) >= 3
  THEN BrandRows(brand.rows, Len(brand.rows) - 1)
  ELSE << >>

\* `if row[c - 1] != value: cells_to_update.append(Cell(...))`, for the
\* column idx (counted from B) when the header has it
UpdateIfDiffers(updates, row, r, idx, value) ==
  IF idx >= 0 /\ Cell(row, idx + 1) # value
  THEN Append(updates, [row |-> r + 1, col |-> idx + 2, value |-> value])
  ELSE updates

\* a row without a weight is logged only under a header with a Weight column
\* (with a variant just above it that logs it under any header)
LogsMissingWeight_AnyHeader(idx_weight_B, sku_val, w) == sku_val # "" /\ w = ""

LogsMissingWeight(idx_weight_B, sku_val, w) ==
  idx_weight_B >= 0 /\ sku_val # "" /\ w = ""

\* a row under a header: w, bname and bcode are what the maps have for its
\* SKU ("" for None)
OtherFields(acc, row, r, pid, sku_val, w, bname, bcode) ==
  [acc EXCEPT
     !.updates =
        LET u2 == UpdateIfDiffers(
                    UpdateIfDiffers(@, row, r, acc.ix.stock, Decimal(STOCK_VALUE)),
                    row, r, acc.ix.dtos, Decimal(DTOS_VALUE))
            u3 == IF sku_val # "" /\ w # ""
                  THEN UpdateIfDiffers(u2, row, r, acc.ix.weight, w) ELSE u2
        IN IF sku_val # ""
           THEN UpdateIfDiffers(u3, row, r, acc.ix.brand, IF bcode # "" THEN bcode ELSE "0")
           ELSE u3,
     !.failures =
        (IF LogsMissingWeight(acc.ix.weight, sku_val, w)
         THEN Append(@, << pid, "", "", "WEIGHT_MAP_MISSING", "sku=" \o sku_val >>)
         ELSE @)
        \o (IF acc.ix.brand >= 0 /\ sku_val # "" /\ bname # "" /\ bcode = ""
            THEN << << pid, "", "", "BRAND_CODE_NOT_FOUND", "brand_name=" \o bname >> >>
            ELSE << >>)]

OtherFieldsOf(acc, row, r, maps, codes, sku_val, bname) ==
  OtherFields(acc, row, r, strip(Cell(row, 0)), sku_val,
              DictGet(maps.sku_to_weight, sku_val, ""), bname,
              IF bname # "" THEN DictGet(codes, CollapseSpaces(lower(bname)), "") ELSE "")

\* what the loop over the rows of TEM_OUTPUT has so far: current_headers
\* (<< >> for None), the five column indices, cells_to_update and failures
NoFields ==
  [hdr |-> << >>, ix |-> [stock |-> -1, dtos |-> -1, weight |-> -1, brand |-> -1, sku |-> -1],
   updates |-> << >>, failures |-> << >>]

Step4Columns(hdr_keys) ==
  [stock |-> _find_col_index(hdr_keys, "stock", << >>),
   dtos |-> _find_col_index(hdr_keys, "daystoship", << >>),
   weight |-> _find_col_index(hdr_keys, "weight", << >>),
   brand |-> _find_col_index(hdr_keys, "brand", << >>),
   sku |-> _find_col_index(hdr_keys, "sku", << >>)]

\* the body of `for r in range(len(tem_vals))`
Step4Row(acc, row, r, maps, codes, sku_val) ==
  IF IsHeaderRow(row)
  THEN [acc EXCEPT !.hdr = Rest(row), !.ix = Step4Columns(HeaderKeys(Rest(row)))]
  ELSE IF acc.hdr = << >> THEN acc
  ELSE OtherFieldsOf(acc, row, r, maps, codes, sku_val,
                     DictGet(maps.sku_to_brand_name, sku_val, ""))

SkuOf(acc, row) == IF acc.ix.sku >= 0 THEN strip(Cell(row, acc.ix.sku + 1)) ELSE ""

\* that loop, for the first n rows
RECURSIVE Step4Rows(_, _, _, _)
Step4Rows(tem_vals, maps, codes, n) ==
  IF n = 0 THEN NoFields
  ELSE LET acc == Step4Rows(tem_vals, maps, codes, n - 1)
       IN Step4Row(acc, tem_vals[n], n - 1, maps, codes,
                   IF IsHeaderRow(tem_vals[n]) THEN "" ELSE SkuOf(acc, tem_vals[n]))

Step4End(vals, acc) == StepEnd("", vals, acc.updates, acc.failures)

\* run_step_4: without TEM_OUTPUT it raises; on an empty one it returns; else
\* it fills the four fields and logs the rows it could not match
run_step_4(tem, margin, brand) ==
  IF ~tem.exists THEN StepEnd("WorksheetNotFound", tem.rows, << >>, << >>)
  ELSE IF tem.rows = << >> THEN StepEnd("", tem.rows, << >>, << >>)
  ELSE Step4End(tem.rows,
                Step4Rows(tem.rows, margin_maps(margin), brand_name_to_code(brand),
                          Len(tem.rows)))

(***************************************************************************)
(* Step 4: the tabs it may find and the call of run_step_4                 *)
(***************************************************************************)
\* MARGIN: no tab, a tab without an SKU column, a tab of some SKUs
MarginTabs ==
  {NoTab,
   Tab(<< << "Name", "Weight", "", "", "" >>, << "Lip Tint", "0.5", "", "", "" >> >>),
   Tab(<< << "SKU", "Brand", "Weight", "Cost", "Price" >>,
          << "S1", "Acme", "0.5", "3", "9.90" >>,
          << " S2", " acme  co", "", "4", "" >>,
          << "S3", "", "1.2", "5", "19" >> >>)}

BrandTabs ==
  {NoTab,
   Tab(<< << "No", "Brand Name", "Code" >>,
          << "1", "ACME", "B01" >>,
          << "2", "Acme Co", "" >>,
          << "3" >> >>)}

\* header rows with and without a Weight column
Step4HeaderCells ==
  {<< "", "Category", "SKU", "Weight", "Brand", "Stock" >>,
   << "", "Category", "Parent SKU", "SKU", "Brand", "Days to ship" >>}

Step4DataCells ==
  {<< "P1", "Beauty", "S1", "", "", "" >>,
   << "P2", "Beauty", "S9", "0.5", "0", "1000" >>,
   << "P3", "Home", "", "", "", "" >>,
   << "P4", "Home", " S2 ", "S2", "old", "1" >>}

\* the call of run_step_4
RunStep4 ==
  /\ step_raised = "not called"
  /\ StepEnds(run_step_4(tem_tab, margin_tab, brand_tab))
  /\ UNCHANGED workbook
  /\ UNCHANGED other_than_steps

InitStep4 ==
  /\ BeforeLaterSteps
  /\ basic_tab = NoTab
  /\ failures_tab \in FailuresTabs
  /\ fda_tab = NoTab
  /\ step_overwrite = FALSE
  /\ shop_code = ""
  /\ image_host = ""
  /\ tem_tab \in TablesOf(Step4HeaderCells, Step4DataCells)
  /\ margin_tab \in MarginTabs
  /\ brand_tab \in BrandTabs

NextStep4 == RunStep4

SpecStep4 == InitStep4 /\ [][NextStep4]_vars

(***************************************************************************)
(* Claims about Step 4 (SpecStep4).                                        *)
(***************************************************************************)
\* the SKUs that have a row in MARGIN
MarginSkus ==
  IF margin_tab.exists /\ margin_tab.rows # << >>
  THEN LET c == _pick_index_by_candidates(margin_tab.rows[1], << "sku", "seller_sku" >>)
       IN {strip(Cell(margin_tab.rows[r], c)) : r \in 2..Len(margin_tab.rows)} \ {""}
  ELSE {}

\* the trimmed SKU cell of row i of the TEM_OUTPUT the step was called on, by
\* the header above it ("" without a header or an SKU column)
SkuCell(i) ==
  IF HeaderAbove(i) = 0 THEN ""
  ELSE strip(Cell(step_before[i],
                  _find_col_index(HeaderKeys(Rest(step_before[HeaderAbove(i)])),
                                  "sku", << >>) + 1))

\* C14: after run_step_4, for every data row of TEM_OUTPUT with a non-blank
\* SKU cell whose SKU has no row in MARGIN, one of the rows the step added to
\* the Failures tab carries the product id of that row.
C14_LogsUnmatchedRows ==
  step_raised = "" =>
    \A i \in 1..Len(step_before) :
      (~IsHeaderRow(step_before[i]) /\ SkuCell(i) # "" /\ SkuCell(i) \notin MarginSkus)
        => /\ failures_tab.exists
           /\ \E k \in 1..Len(step_failures) :
                /\ step_failures[k][1] = strip(step_before[i][1])
                /\ failures_tab.rows[Len(failures_tab.rows) - Len(step_failures) + k]
                     = step_failures[k]

(***************************************************************************)
(* automation_steps.py: run_step_5                                         *)
(***************************************************************************)
\* {row[0].strip(): row[c] ...} over the rows 1..r (0-based) of vals whose
\* first cell is not blank, c being 0-based
RECURSIVE FirstCellMap(_, _, _)
FirstCellMap(vals, c, r) ==
  IF r < 1 THEN << >>
  ELSE IF vals[r + 1] = << >> \/ strip(vals[r + 1][1]) = ""
  THEN FirstCellMap(vals, c, r - 1)
  ELSE DictPut(FirstCellMap(vals, c, r - 1), strip(vals[r + 1][1]), Cell(vals[r + 1], c))

\* what the loop over the rows of TEM_OUTPUT has so far: current_headers
\* (<< >> for None), the four column indices, updates and pid_groups
NoInfo ==
  [hdr |-> << >>, ix |-> [desc |-> -1, var_integ |-> -1, price |-> -1, sku |-> -1],
   updates |-> << >>, pid_groups |-> NoDict]

Step5Columns(hdr_keys) ==
  [desc |-> _find_col_index(hdr_keys, "productdescription", << >>),
   var_integ |-> _find_col_index(hdr_keys, "variationintegration", << >>),
   price |-> _find_col_index(hdr_keys, "globalskuprice", << >>),
   sku |-> _find_col_index(hdr_keys, "sku", << >>)]

\* a row with a product id under a header
InfoRow(acc, r_idx, pid, sku_val, pid_to_desc, sku_to_price) ==
  [acc EXCEPT
     !.pid_groups = OPut(@, pid, Append(DictGet(@.val, pid, << >>), r_idx + 1)),
     !.updates =
        @ \o (IF acc.ix.desc # -1
              THEN << [row |-> r_idx + 1, col |-> acc.ix.desc + 2,
                       value |-> DictGet(pid_to_desc, pid, "")] >>
              ELSE << >>)
          \o (IF acc.ix.price # -1 /\ acc.ix.sku # -1 /\ sku_val # ""
              THEN << [row |-> r_idx + 1, col |-> acc.ix.price + 2,
                       value |-> DictGet(sku_to_price, sku_val, "")] >>
              ELSE << >>)]

\* the body of `for r_idx, row in enumerate(tem_vals)`
Step5Row(acc, row, r_idx, pid_to_desc, sku_to_price) ==
  IF IsHeaderRow(row)
  THEN [acc EXCEPT !.hdr = HeaderKeys(Rest(row)), !.ix = Step5Columns(HeaderKeys(Rest(row)))]
  ELSE IF acc.hdr = << >> \/ strip(Cell(row, 0)) = "" THEN acc
  ELSE InfoRow(acc, r_idx, strip(Cell(row, 0)), strip(Cell(row, acc.ix.sku + 1)),
               pid_to_desc, sku_to_price)

\* that loop, for the first n rows
RECURSIVE Step5Rows(_, _, _, _)
Step5Rows(tem_vals, pid_to_desc, sku_to_price, n) ==
  IF n = 0 THEN NoInfo
  ELSE Step5Row(Step5Rows(tem_vals, pid_to_desc, sku_to_price, n - 1), tem_vals[n], n - 1,
                pid_to_desc, sku_to_price)

\* the column the variation codes go to: idx_var_integ as the loop over the
\* rows left it, that is of the last header row (with a variant just above
\* it that takes the column of the header above the row)
CodeColumn_OfOwnHeader(tem_vals, last, r) ==
  LET hs == {h \in 1..r : IsHeaderRow(tem_vals[h])}
  IN _find_col_index(HeaderKeys(Rest(tem_vals[CHOOSE h \in hs : \A g \in hs : g <= h])),
                     "variationintegration", << >>)

CodeColumn(tem_vals, last, r) == last

\* for r in rows: updates.append(Cell(row=r, col=idx_var_integ + 2, value=v_code))
CodesOf(tem_vals, last, pid, rows) ==
  LET at == SelectSeq(rows, LAMBDA r : CodeColumn(tem_vals, last, r) # -1)
  IN [k \in 1..Len(at) |->
        [row |-> at[k], col |-> CodeColumn(tem_vals, last, at[k]) + 2, value |-> "V" \o pid]]

\* the loop over pid_groups.items(), for the first n product ids
RECURSIVE VariationCodes(_, _, _, _)
VariationCodes(tem_vals, last, groups, n) ==
  IF n = 0 THEN << >>
  ELSE VariationCodes(tem_vals, last, groups, n - 1)
         \o (IF Len(groups.val[groups.keys[n]]) > 1
             THEN CodesOf(tem_vals, last, groups.keys[n], groups.val[groups.keys[n]])
             ELSE << >>)

Step5End(vals, acc) ==
  StepEnd("", vals,
          acc.updates \o VariationCodes(vals, acc.ix.var_integ, acc.pid_groups,
                                        Len(acc.pid_groups.keys)),
          << >>)

\* run_step_5: without TEM_OUTPUT, BASIC or MARGIN it raises; else it fills
\* the descriptions, the prices and the variation codes
run_step_5(tem, basic, margin) ==
  IF ~tem.exists \/ ~basic.exists \/ ~margin.exists
  THEN StepEnd("WorksheetNotFound", tem.rows, << >>, << >>)
  ELSE Step5End(tem.rows,
                Step5Rows(tem.rows, FirstCellMap(basic.rows, 3, Len(basic.rows) - 1),
                          FirstCellMap(margin.rows, 4, Len(margin.rows) - 1),
                          Len(tem.rows)))

(***************************************************************************)
(* Step 5: the tabs it may find and the call of run_step_5                 *)
(***************************************************************************)
MaxBlockRows == 4   \* rows of a TEM_OUTPUT of more than one block

\* BASIC with the descriptions in column D
Step5BasicTabs ==
  {NoTab,
   Tab(<< << "Product ID", "Name", "Group", "Description" >>,
          << "P1", "Lip Tint", "", "A tint" >>,
          << "P2", "Lamp" >>,
          << >>,
          << " P1", "Lip Tint", "", " Second" >> >>)}

\* header rows with the Variation Integration column in different places,
\* and without it
Step5HeaderCells ==
  {<< "", "Category", "SKU", "Variation Integration", "Product Description" >>,
   << "", "Category", "Variation Integration", "SKU", "Global SKU Price" >>,
   << "", "Category", "SKU", "Product Description", "Global SKU Price" >>}

Step5DataCells ==
  {<< "P1", "Beauty", "S1", "", "" >>,
   << "P1 ", "Beauty", "S3", "S1", "old" >>,
   << "P2", "Home", "", "", "" >>,
   << "", "Home", "S1", "", "" >>}

\* the call of run_step_5
RunStep5 ==
  /\ step_raised = "not called"
  /\ StepEnds(run_step_5(tem_tab, basic_tab, margin_tab))
  /\ UNCHANGED workbook
  /\ UNCHANGED other_than_steps

InitStep5 ==
  /\ BeforeLaterSteps
  /\ failures_tab = NoTab
  /\ fda_tab = NoTab
  /\ step_overwrite = FALSE
  /\ brand_tab = NoTab
  /\ shop_code = ""
  /\ image_host = ""
  /\ tem_tab \in TablesUpTo(Step5HeaderCells, Step5DataCells, MaxBlockRows)
  /\ basic_tab \in Step5BasicTabs
  /\ margin_tab \in MarginTabs

NextStep5 == RunStep5

SpecStep5 == InitStep5 /\ [][NextStep5]_vars

(***************************************************************************)
(* Claims about Step 5 (SpecStep5).                                        *)
(***************************************************************************)
\* the data rows of the TEM_OUTPUT the step was called on that carry the
\* product id of row i: under a header, column A not blank
RowsOfPid(i) ==
  {k \in 1..Len(step_before) :
     /\ ~IsHeaderRow(step_before[k]) /\ HeaderAbove(k) > 0
     /\ strip(step_before[k][1]) # ""
     /\ strip(step_before[k][1]) = strip(step_before[i][1])}

\* the sheet column of Variation Integration in the header above row i (1 =
\* none)
CodeColumnOf(i) ==
  _find_col_index(HeaderKeys(Rest(step_before[HeaderAbove(i)])),
                  "variationintegration", << >>) + 2

\* C15: after run_step_5, every data row whose product id occurs on two or
\* more data rows holds V + the product id in the Variation Integration
\* column of the header of its own block, and no row whose product id occurs
\* once is given a code.
C15_VariationCodePerGroup ==
  step_raised = "" =>
    \A i \in 1..Len(step_before) :
      IF Cardinality(RowsOfPid(i)) >= 2
      THEN CodeColumnOf(i) > 1
             => tem_tab.rows[i][CodeColumnOf(i)] = "V" \o strip(step_before[i][1])
      ELSE \A u \in 1..Len(step_updates) :
             step_updates[u].row = i => ~StartsWith(step_updates[u].value, "V")

(***************************************************************************)
(* automation_steps.py: run_step_6                                         *)
(***************************************************************************)
\* host = get_env("IMAGE_HOSTING_URL", ""), with "/" added when it does not
\* end in one
HostOf(env) == IF EndsWith(strip(env), "/") THEN strip(env) ELSE strip(env) \o "/"

\* sku_for_url = psku_val if psku_val else sku_val (with the mutant just
\* above it)
sku_for_url_SkuFirst(psku_val, sku_val) == IF sku_val # "" THEN sku_val ELSE psku_val

sku_for_url(psku_val, sku_val) == IF psku_val # "" THEN psku_val ELSE sku_val

\* what the loop over the rows of TEM_OUTPUT has so far: current_headers
\* (<< >> for None), the three column indices and updates
NoUrls == [hdr |-> << >>, cover |-> -1, sku |-> -1, psku |-> -1, updates |-> << >>]

\* a row under a header with a cover column
UrlRow(acc, r_idx, key, host, code) ==
  IF key # ""
  THEN [acc EXCEPT !.updates =
          Append(@, [row |-> r_idx + 1, col |-> acc.cover + 2,
                     value |-> host \o key \o "_C_" \o code \o ".jpg"])]
  ELSE acc

\* the body of `for r_idx, row in enumerate(tem_vals)`
Step6Row(acc, row, r_idx, host, code) ==
  IF IsHeaderRow(row)
  THEN [acc EXCEPT !.hdr = HeaderKeys(Rest(row)),
                   !.cover = _find_col_index(HeaderKeys(Rest(row)), "coverimage", << >>),
                   !.sku = _find_col_index(HeaderKeys(Rest(row)), "sku", << >>),
                   !.psku = _find_col_index(HeaderKeys(Rest(row)), "parentsku", << >>)]
  ELSE IF acc.hdr = << >> \/ acc.cover = -1 THEN acc
  ELSE UrlRow(acc, r_idx,
              sku_for_url(IF acc.psku # -1 THEN strip(Cell(row, acc.psku + 1)) ELSE "",
                          IF acc.sku # -1 THEN strip(Cell(row, acc.sku + 1)) ELSE ""),
              host, code)

\* that loop, for the first n rows
RECURSIVE Step6Rows(_, _, _, _)
Step6Rows(tem_vals, host, code, n) ==
  IF n = 0 THEN NoUrls
  ELSE Step6Row(Step6Rows(tem_vals, host, code, n - 1), tem_vals[n], n - 1, host, code)

\* run_step_6: without TEM_OUTPUT it raises; else it writes the cover URLs
run_step_6(tem, code, host_env) ==
  IF ~tem.exists THEN StepEnd("WorksheetNotFound", tem.rows, << >>, << >>)
  ELSE StepEnd("", tem.rows,
               Step6Rows(tem.rows, HostOf(host_env), code, Len(tem.rows)).updates, << >>)

(***************************************************************************)
(* Step 6: the tabs it may find and the call of run_step_6                 *)
(***************************************************************************)
ImageHosts == {"", "h/", " cdn"}

ShopCodes == {"TH1", "sg"}

\* header rows with and without a Cover image and a Parent SKU column
Step6HeaderCells ==
  {<< "", "Category", "Parent SKU", "SKU", "Cover Image" >>,
   << "", "Category", "Cover image", "SKU", "Brand" >>,
   << "", "Category", "SKU", "Parent SKU", "Brand" >>}

Step6DataCells ==
  {<< "P1", "Beauty", "PS1", "S1", "" >>,
   << "P2", "Beauty", "PS1", "S2", "old" >>,
   << "P3", "Home", "", " S3", "" >>,
   << "", "Home", " ", "", "x" >>}

\* the call of run_step_6
RunStep6 ==
  /\ step_raised = "not called"
  /\ StepEnds(run_step_6(tem_tab, shop_code, image_host))
  /\ UNCHANGED workbook
  /\ UNCHANGED other_than_steps

InitStep6 ==
  /\ BeforeLaterSteps
  /\ basic_tab = NoTab
  /\ failures_tab = NoTab
  /\ fda_tab = NoTab
  /\ step_overwrite = FALSE
  /\ margin_tab = NoTab
  /\ brand_tab = NoTab
  /\ tem_tab \in TablesOf(Step6HeaderCells, Step6DataCells)
  /\ shop_code \in ShopCodes
  /\ image_host \in ImageHosts

NextStep6 == RunStep6

SpecStep6 == InitStep6 /\ [][NextStep6]_vars

(***************************************************************************)
(* Claims about Step 6 (SpecStep6).                                        *)
(***************************************************************************)
\* the trimmed cell of row i under the column that the header above it
\* resolves name to ("" without such a column), and the sheet column itself
\* (1 = none)
ColumnOf(i, name) ==
  _find_col_index(HeaderKeys(Rest(step_before[HeaderAbove(i)])), name, << >>) + 2

Under(i, name) ==
  IF ColumnOf(i, name) > 1 THEN strip(Cell(step_before[i], ColumnOf(i, name) - 1)) ELSE ""

\* the URL the claim C16 gives for row i ("" for none)
CoverUrl(i) ==
  LET host == strip(image_host)
      key == IF Under(i, "parentsku") # "" THEN Under(i, "parentsku") ELSE Under(i, "sku")
  IN IF key = "" THEN ""
     ELSE (IF host # "" /\ Ch(host, Len(host)) = "/" THEN host ELSE host \o "/")
            \o key \o "_C_" \o shop_code \o ".jpg"

\* C16: after run_step_6, every data row under a header with a Cover image
\* column holds in that column host (with a "/" added when host does not end
\* in one) + key + _C_ + shop_code + .jpg, key being its Parent SKU when that
\* is not blank and else its SKU, and is unchanged when both are blank; no
\* other cell is changed; rows with the same Parent SKU get the same URL; and
\* a second run of Step 6 writes the same values again.
C16_CoverUrlDeterministic ==
  step_raised = "" =>
    /\ Len(tem_tab.rows) = Len(step_before)
    /\ \A i \in 1..Len(step_before) :
         /\ Len(tem_tab.rows[i]) = Len(step_before[i])
         /\ \A c \in 1..Len(step_before[i]) :
              tem_tab.rows[i][c] =
                IF ~IsHeaderRow(step_before[i]) /\ HeaderAbove(i) > 0
                   /\ c > 1 /\ c = ColumnOf(i, "coverimage") /\ CoverUrl(i) # ""
                THEN CoverUrl(i) ELSE step_before[i][c]
    /\ \A i, k \in 1..Len(step_before) :
         (/\ ~IsHeaderRow(step_before[i]) /\ ~IsHeaderRow(step_before[k])
          /\ HeaderAbove(i) > 0 /\ HeaderAbove(k) > 0
          /\ ColumnOf(i, "coverimage") > 1 /\ ColumnOf(k, "coverimage") > 1
          /\ Under(i, "parentsku") # "" /\ Under(i, "parentsku") = Under(k, "parentsku"))
           => tem_tab.rows[i][ColumnOf(i, "coverimage")]
                = tem_tab.rows[k][ColumnOf(k, "coverimage")]
    /\ run_step_6(tem_tab, shop_code, image_host).updates = step_updates
    /\ run_step_6(tem_tab, shop_code, image_host).vals = tem_tab.rows

\* two rows of one Parent SKU and different SKUs got the same URL, the host
\* having no "/" at its end
C16_Witness ==
  /\ step_raised = ""
  /\ image_host = " cdn"
  /\ Len(step_before) = 3
  /\ step_before[1] = << "", "Category", "Parent SKU", "SKU", "Cover Image" >>
  /\ step_before[2][3] = "PS1" /\ step_before[3][3] = "PS1"
  /\ step_before[2][4] # step_before[3][4]
  /\ tem_tab.rows[2][5] = "cdn/PS1_C_" \o shop_code \o ".jpg"
  /\ tem_tab.rows[3][5] = tem_tab.rows[2][5]

(***************************************************************************)
(* automation_steps.py: run_step_7                                         *)
(***************************************************************************)
\* str.title(): a letter is upper-cased after a character that is not a
\* letter and lower-cased after a letter
IsLetter(c) ==
  c \in DOMAIN LowerMap \/ (\E u \in DOMAIN LowerMap : LowerMap[u] = c) \/ c \in {"é", "É"}

RECURSIVE TitleFrom(_, _)
TitleFrom(s, after_letter) ==
  IF s = "" THEN ""
  ELSE (IF ~IsLetter(Head(s)) THEN Head(s)
        ELSE IF after_letter THEN LowerCh(Head(s))
        ELSE SwapCase(LowerCh(Head(s))))
       \o TitleFrom(Tail(s), IsLetter(Head(s)))

title(s) == TitleFrom(s, FALSE)

\* re.sub(r"[\s/\\*?:\[\]]", "_", s)
RECURSIVE SheetChars(_)
SheetChars(s) ==
  IF s = "" THEN ""
  ELSE (IF IsSpace(Head(s)) \/ Head(s) \in {"/", "\\", "*", "?", ":", "[", "]"}
        THEN "_" ELSE Head(s)) \o SheetChars(Tail(s))

\* sheet_name, from the category of the first data row of a block
sheet_name(first_cat) ==
  LET top_level_name == IF top_of_category(first_cat) = "" THEN "UNKNOWN"
                        ELSE top_of_category(first_cat)
      name == SheetChars(title(top_level_name))
      cut == IF Len(name) > 31 THEN SubSeq(name, 1, 31) ELSE name
  IN IF cut = "" THEN "Sheet1" ELSE cut

\* str.replace(r"\s*-\s*", "-", regex=True)
RECURSIVE TightHyphens(_)
TightHyphens(s) ==
  IF s = "" THEN ""
  ELSE IF lstrip(s) # "" /\ Head(lstrip(s)) = "-"
  THEN "-" \o TightHyphens(lstrip(Tail(lstrip(s))))
  ELSE Head(s) \o TightHyphens(Tail(s))

\* sub_df with its header: the block without column A, the first column of
\* its data rows with tight hyphens; rows h..e of all_data (1-based)
SubFrame(all_data, h, e) ==
  << Rest(all_data[h]) >>
    \o [k \in 1..(e - h) |->
          [Rest(all_data[h + k]) EXCEPT ![1] = TightHyphens(@)]]

\* DataFrame.to_excel(writer, sheet_name=...): a new sheet, or the cells
\* written over those of the sheet of that name
to_excel(book, name, rows) ==
  LET at == {k \in 1..Len(book) : book[k].name = name}
      old == book[CHOOSE k \in at : TRUE].rows
      n == IF Len(old) > Len(rows) THEN Len(old) ELSE Len(rows)
      Over(i) ==
        IF i > Len(rows) THEN old[i]
        ELSE IF i > Len(old) THEN rows[i]
        ELSE rows[i] \o SubSeq(old[i], Len(rows[i]) + 1, Len(old[i]))
  IN IF at = {} THEN Append(book, [name |-> name, rows |-> rows])
     ELSE [book EXCEPT ![CHOOSE k \in at : TRUE].rows = [i \in 1..n |-> Over(i)]]

\* header_indices: the rows whose column B, lower-cased, reads category
header_indices(all_data) ==
  IndicesWhere(Len(all_data), {i \in 1..Len(all_data) : lower(Cell(all_data[i], 1)) = "category"})

\* the loop over header_indices, for the first n of them (0-based row
\* indices hs); a block without data rows is skipped
RECURSIVE SplitBlocks(_, _, _, _)
SplitBlocks(book, all_data, hs, n) ==
  IF n = 0 THEN book
  ELSE LET start_row == hs[n]
           end_row == IF n < Len(hs) THEN hs[n + 1] ELSE Len(all_data)
           before == SplitBlocks(book, all_data, hs, n - 1)
       IN IF end_row - start_row < 2 THEN before
          ELSE to_excel(before, sheet_name(Cell(all_data[start_row + 2], 1)),
                        SubFrame(all_data, start_row + 1, end_row))

\* the Failure sheet: the records of the Failures tab, or a note
FailureSheet(failures) ==
  IF failures.exists /\ Len(failures.rows) >= 2 THEN failures.rows
  ELSE << << "Info" >>, << "No failures" >> >>

\* run_step_7: what it raised, whether it returned the workbook (None on a
\* TEM_OUTPUT of fewer than two rows or without a header row), and the
\* sheets of the workbook
run_step_7(tem, failures) ==
  IF ~tem.exists THEN [raised |-> "WorksheetNotFound", returned |-> FALSE, book |-> << >>]
  ELSE IF Len(tem.rows) < 2 \/ header_indices(tem.rows) = << >>
  THEN [raised |-> "", returned |-> FALSE, book |-> << >>]
  ELSE [raised |-> "", returned |-> TRUE,
        book |-> SplitBlocks(<< [name |-> "Failure", rows |-> FailureSheet(failures)] >>,
                             tem.rows, header_indices(tem.rows),
                             Len(header_indices(tem.rows)))]

(***************************************************************************)
(* Step 7: the tabs it may find and the call of run_step_7                 *)
(***************************************************************************)
Step7HeaderCells == {<< "", "Category", "SKU" >>, << "", "Category", "Name" >>}

Step7DataCells ==
  {<< "P1", "100 - Beauty/Makeup", "S1" >>,
   << "P2", "Beauty/Lips", "S2" >>,
   << "P3", "Home Living>Lamps", "S3" >>,
   << "P4", "home_living/Desks", "S4" >>,
   << "P5", "Toys", "S5" >>}

\* the call of run_step_7 by the page
RunStep7 ==
  /\ step_raised = "not called"
  /\ step_before' = tem_tab.rows
  /\ step_raised' = run_step_7(tem_tab, failures_tab).raised
  /\ workbook' = run_step_7(tem_tab, failures_tab).book
  /\ UNCHANGED <<tem_tab, failures_tab, step_updates, step_failures>>
  /\ UNCHANGED other_than_steps

InitStep7 ==
  /\ BeforeLaterSteps
  /\ basic_tab = NoTab
  /\ fda_tab = NoTab
  /\ step_overwrite = FALSE
  /\ margin_tab = NoTab
  /\ brand_tab = NoTab
  /\ shop_code = ""
  /\ image_host = ""
  /\ failures_tab \in FailuresTabs
  /\ tem_tab \in TablesUpTo(Step7HeaderCells, Step7DataCells, MaxBlockRows)

NextStep7 == RunStep7

SpecStep7 == InitStep7 /\ [][NextStep7]_vars

(***************************************************************************)
(* Claims about Step 7 (SpecStep7).                                        *)
(***************************************************************************)
\* the header rows of the TEM_OUTPUT the step was called on that have a data
\* row below them, and the last row of the block of such a header row
BlocksWithData ==
  {h \in 1..(Len(step_before) - 1) :
     IsHeaderRow(step_before[h]) /\ ~IsHeaderRow(step_before[h + 1])}

BlockEnd(h) ==
  CHOOSE e \in h..Len(step_before) :
    /\ \A i \in (h + 1)..e : ~IsHeaderRow(step_before[i])
    /\ (e = Len(step_before) \/ IsHeaderRow(step_before[e + 1]))

\* C17: the workbook run_step_7 returns holds one Failure sheet and exactly
\* one more sheet for every header block with a data row, and the sheet of a
\* block holds its header row and then its data rows, in their order,
\* without column A; so no data row under a header row is missing from the
\* workbook or is in two sheets.
C17_OneSheetPerBlock ==
  (step_raised = "" /\ workbook # << >>) =>
    /\ Cardinality({k \in 1..Len(workbook) : workbook[k].name = "Failure"}) = 1
    /\ Len(workbook) = 1 + Cardinality(BlocksWithData)
    /\ \E f \in [BlocksWithData -> 1..Len(workbook)] :
         /\ \A g, h \in BlocksWithData : g # h => f[g] # f[h]
         /\ \A h \in BlocksWithData :
              /\ workbook[f[h]].name # "Failure"
              /\ workbook[f[h]].rows = [k \in 1..(BlockEnd(h) - h + 1) |->
                                          Rest(step_before[h + k - 1])]

(***************************************************************************)
(* utils_common.py: top_of_category and its two callers                    *)
(***************************************************************************)
MaxCatLen == 3      \* characters of a category path after its id prefix

CatChars == {"A", "b", " ", "/", ">", "|", "\\"}

CatPrefixes == {"", "12 - ", " 7-"}

\* the texts of at most n characters
RECURSIVE CatPaths(_)
CatPaths(n) ==
  IF n = 0 THEN {""}
  ELSE CatPaths(n - 1) \cup {p \o c : p \in CatPaths(n - 1), c \in CatChars}

\* top_of_category(cat) as run_step_1 (line 239) and run_step_7 (lines
\* 840-841) call it on the category of a row
TopOfCategory ==
  /\ ~cat_res.done
  /\ cat_res' = [done |-> TRUE,
                 top |-> top_of_category(cat_in),
                 key |-> BucketKey(lower(top_of_category(cat_in)), cat_in),
                 sheet |-> sheet_name(cat_in)]
  /\ UNCHANGED <<cat_in, rt_pc, rt_attempt, rt_calls, rt_sleeps, rt_backoffs, rt_err,
                 rt_sleep_for, rt_out,
                 up_files, up_idx, up_chunk, up_grid, up_logs, up_wrote, up_calls,
                 fl_pc, fl_logged, mg_spans, mg_out>>
  /\ UNCHANGED <<vars_app, vars_hdr, vars_s1, tem_tab, vars_s2, vars_steps>>

InitTopCategory ==
  /\ AppIdle /\ HdrKeyIdle /\ ResolverIdle /\ Step1Idle /\ Step2Idle
  /\ RetryIdle /\ UploadIdle /\ FailuresRunIdle /\ MergeIdle
  /\ fda_tab = NoTab
  /\ step_overwrite = FALSE
  /\ margin_tab = NoTab
  /\ brand_tab = NoTab
  /\ shop_code = ""
  /\ image_host = ""
  /\ step_before = <<>>
  /\ step_updates = <<>>
  /\ step_raised = "idle"
  /\ step_failures = <<>>
  /\ workbook = <<>>
  /\ cat_in \in {p \o c : p \in CatPrefixes, c \in CatPaths(MaxCatLen)}
  /\ cat_res = [done |-> FALSE, top |-> "", key |-> "", sheet |-> ""]

NextTopCategory == TopOfCategory

SpecTopCategory == InitTopCategory /\ [][NextTopCategory]_vars

(***************************************************************************)
(* Claims about top_of_category (SpecTopCategory).                         *)
(***************************************************************************)
\* the places of s where one of the characters of seps stands
PlacesOf(s, seps) == {i \in 1..Len(s) : Ch(s, i) \in seps}

\* s up to the first of those places, trimmed and lower-cased
SegmentBefore(s, seps) ==
  IF PlacesOf(s, seps) = {} THEN lower(strip(s))
  ELSE lower(strip(SubSeq(s, 1,
         (CHOOSE i \in PlacesOf(s, seps) : \A j \in PlacesOf(s, seps) : i <= j) - 1)))

\* the separator top_of_category splits at: '/' when the path has one, else
\* '>', else '|', else '\'
SeparatorOf(s) ==
  IF PlacesOf(s, {"/"}) # {} THEN {"/"}
  ELSE IF PlacesOf(s, {">"}) # {} THEN {">"}
  ELSE IF PlacesOf(s, {"|"}) # {} THEN {"|"}
  ELSE {"\\"}

\* the sheet name Step 7 makes of a top-level category
SheetOfTop(top) ==
  LET name == SheetChars(title(IF top = "" THEN "UNKNOWN" ELSE top))
  IN IF name = "" THEN "Sheet1"
     ELSE IF Len(name) > 31 THEN SubSeq(name, 1, 31) ELSE name

\* C18 as stated: without its numeric id prefix, the category is cut at the
\* first of the separators '/', '>', '|', '\' that occurs in it, trimmed and
\* lower-cased (None, here "", for an empty input or first segment); Step 1
\* uses this value as the block key and Step 7 makes the sheet name of it.
C18_FirstSegmentOfPath ==
  cat_res.done =>
    /\ cat_res.top = (IF cat_in = "" THEN ""
                      ELSE SegmentBefore(strip_category_id(cat_in), {"/", ">", "|", "\\"}))
    /\ cat_res.key = cat_res.top
    /\ cat_res.sheet = SheetOfTop(cat_res.top)

\* C18, amended: the category is cut at the first '/' when it has a '/',
\* else at the first '>', else at the first '|', else at the first '\'; a
\* separator of a later kind that stands before the chosen one stays in the
\* result.
C18_FirstSegmentBySeparatorOrder ==
  cat_res.done =>
    /\ cat_res.top = (IF cat_in = "" THEN ""
                      ELSE SegmentBefore(strip_category_id(cat_in),
                                         SeparatorOf(strip_category_id(cat_in))))
    /\ cat_res.key = cat_res.top
    /\ cat_res.sheet = SheetOfTop(cat_res.top)

\* reached: a path with an id prefix whose first '/' has a '>' before it, and
\* the '>' is part of the key
C18_Witness ==
  /\ cat_res.done
  /\ cat_in = "12 - A>/"
  /\ cat_res.top = "a>"
  /\ cat_res.key = "a>"
  /\ cat_res.sheet = "A>"

(***************************************************************************)
(* utils_common.py: with_retry                                             *)
(***************************************************************************)
\* the default of the argument retries; no caller gives another value
retries == 8

\* the exceptions fn may raise: the status code of e.response (0 = e has no
\* response) and str(e)
RetryErrors ==
  {[code |-> 429, msg |-> "Quota exceeded"],
   [code |-> 500, msg |-> "Internal error"],
   [code |-> 503, msg |-> "The service is currently unavailable"],
   [code |-> 400, msg |-> "Invalid requests[0]"],
   [code |-> 403, msg |-> "Rate Limit Exceeded"],
   [code |-> 404, msg |-> "Requested entity was not found"],
   [code |-> 0, msg |-> "cannot separate the rows"],
   [code |-> 0, msg |-> "BASIC"]}

\* lines 118-120: is_rate
is_rate(e) ==
  \/ e.code \in {429, 500, 502, 503, 504}
  \/ Contains(lower(e.msg), "quota")
  \/ Contains(lower(e.msg), "rate")

\* the unit of the delays: base_delay, backoff and the jitter of the model
\* give whole numbers of it
DelayUnit == 20 * 5^6

\* the defaults of the arguments base_delay and max_delay
base_delay == 2 * DelayUnit
max_delay == 65 * DelayUnit

\* line 125: delay = min(max_delay, delay * backoff), with backoff = 1.8
Grow(delay) ==
  IF (delay * 9) \div 5 < max_delay THEN (delay * 9) \div 5 ELSE max_delay

\* the local delay after n turns of the loop that slept
RECURSIVE delay_after(_)
delay_after(n) == IF n = 0 THEN base_delay ELSE Grow(delay_after(n - 1))

\* random.uniform(0, delay * 0.3): both ends and the middle
Jitters(delay) == {0, (delay * 3) \div 20, (delay * 3) \div 10}

\* (a sleep that is not held down to max_delay)
sleep_for_Uncapped(delay, jitter) == delay + jitter

\* line 123: sleep_for = min(max_delay, delay + jitter)
sleep_for(delay, jitter) ==
  IF delay + jitter < max_delay THEN delay + jitter ELSE max_delay

\* what fn may return
FnValues == {"worksheet", "None"}

rt_other == <<cat_in, cat_res, up_files, up_idx, up_chunk, up_grid, up_logs, up_wrote,
              up_calls, fl_pc, fl_logged, mg_spans, mg_out>>

\* line 116: try: return fn()
RetryCall ==
  /\ rt_pc = "call"
  /\ rt_calls' = rt_calls + 1
  /\ \/ /\ rt_pc' = "returned"
        /\ \E v \in FnValues : rt_out' = [rt_out EXCEPT !.kind = "value", !.value = v]
        /\ UNCHANGED rt_err
     \/ /\ \E e \in RetryErrors : rt_pc' = "except" /\ rt_err' = e
        /\ UNCHANGED rt_out
  /\ UNCHANGED <<rt_attempt, rt_sleeps, rt_backoffs, rt_sleep_for>>
  /\ UNCHANGED rt_other
  /\ UNCHANGED <<vars_app, vars_hdr, vars_s1, tem_tab, vars_s2, vars_steps>>

\* lines 117-130: the handler: time.sleep is called, or the loop is left and
\* last_err is raised
RetryExcept ==
  /\ rt_pc = "except"
  /\ IF is_rate(rt_err) /\ rt_attempt < retries
     THEN /\ rt_pc' = "sleep"
          /\ rt_sleeps' = rt_sleeps + 1
          /\ \E jitter \in Jitters(delay_after(rt_backoffs)) :
               rt_sleep_for' = sleep_for(delay_after(rt_backoffs), jitter)
          /\ UNCHANGED rt_out
     ELSE /\ rt_pc' = "raised"
          /\ rt_out' = [rt_out EXCEPT !.kind = "error", !.err = rt_err]
          /\ UNCHANGED <<rt_sleeps, rt_sleep_for>>
  /\ UNCHANGED <<rt_attempt, rt_calls, rt_backoffs, rt_err>>
  /\ UNCHANGED rt_other
  /\ UNCHANGED <<vars_app, vars_hdr, vars_s1, tem_tab, vars_s2, vars_steps>>

\* lines 124-126: time.sleep returns, delay grows (up to max_delay) and the
\* loop goes to its next attempt
RetryWake ==
  /\ rt_pc = "sleep"
  /\ rt_backoffs' = rt_backoffs + 1
  /\ rt_attempt' = rt_attempt + 1
  /\ rt_pc' = "call"
  /\ UNCHANGED <<rt_calls, rt_sleeps, rt_err, rt_sleep_for, rt_out>>
  /\ UNCHANGED rt_other
  /\ UNCHANGED <<vars_app, vars_hdr, vars_s1, tem_tab, vars_s2, vars_steps>>

InitRetry ==
  /\ AppIdle /\ HdrKeyIdle /\ ResolverIdle /\ Step1Idle /\ Step2Idle
  /\ TopCategoryIdle /\ UploadIdle /\ FailuresRunIdle /\ MergeIdle
  /\ fda_tab = NoTab
  /\ step_overwrite = FALSE
  /\ margin_tab = NoTab
  /\ brand_tab = NoTab
  /\ shop_code = ""
  /\ image_host = ""
  /\ step_before = <<>>
  /\ step_updates = <<>>
  /\ step_raised = "idle"
  /\ step_failures = <<>>
  /\ workbook = <<>>
  /\ rt_pc = "call"
  /\ rt_attempt = 1
  /\ rt_calls = 0
  /\ rt_sleeps = 0
  /\ rt_backoffs = 0
  /\ rt_err = [code |-> 0, msg |-> ""]
  /\ rt_sleep_for = 0
  /\ rt_out = [kind |-> "running", value |-> "", err |-> [code |-> 0, msg |-> ""]]

NextRetry ==
  \/ RetryCall
  \/ RetryExcept
  \/ RetryWake

SpecRetry == InitRetry /\ [][NextRetry]_vars

(***************************************************************************)
(* Claims about with_retry (SpecRetry).                                    *)
(***************************************************************************)
\* C19: with_retry retries only on the status codes 429, 500, 502, 503 and
\* 504: it never sleeps after an error with another status code (or none),
\* and such an error raised by the first call is propagated after that one
\* call, without a sleep.
C19_RetriesOnlyOnListedStatusCodes ==
  /\ rt_pc = "sleep" => rt_err.code \in {429, 500, 502, 503, 504}
  /\ (rt_pc = "raised" /\ rt_err.code \notin {429, 500, 502, 503, 504} /\ rt_attempt = 1)
       => (rt_calls = 1 /\ rt_sleeps = 0)

(***************************************************************************)
(* upload_apply.py: _write_values_to_sheet and apply_uploaded_files, with  *)
(* the cells of the tabs                                                   *)
(***************************************************************************)
MaxUpFiles == 2     \* files given to apply_uploaded_files

\* max((len(r) for r in values), default=0)
RECURSIVE MaxRowLen(_)
MaxRowLen(values) ==
  IF values = << >> THEN 0
  ELSE LET m == MaxRowLen(Tail(values))
       IN IF Len(Head(values)) > m THEN Len(Head(values)) ELSE m

\* (a clear that leaves the cells as they are)
clear_Kept(cells) == cells

\* ws.clear(): no cell keeps a value
clear(cells) == << >>

\* ws.update(start_a1, vals, raw=True) with start_a1 in column A, start rows
\* down: the cells given are written, every other cell keeps its value
update(cells, start, vals) ==
  LET n == IF Len(cells) > start + Len(vals) THEN Len(cells) ELSE start + Len(vals)
      Old(i) == IF i <= Len(cells) THEN cells[i] ELSE << >>
      New(i) == vals[i - start] \o SubSeq(Old(i), Len(vals[i - start]) + 1, Len(Old(i)))
  IN [i \in 1..n |-> IF start < i /\ i <= start + Len(vals) THEN New(i) ELSE Old(i)]

\* the call of gspread that fails for good (with_retry raises), if any: the
\* try block of lines 226-228, add_worksheet, resize, or the k-th update
WriteFailures ==
  {[call |-> c, k |-> 0] : c \in {"none", "clear", "add_worksheet", "resize"}}
    \cup {[call |-> "update", k |-> k] : k \in 1..2}

\* (every chunk written from row 1 down)
start_a1_row_First(start) == 1

\* line 240: the row of start_a1 = rowcol_to_a1(start + 1, 1)
start_a1_row(start) == start + 1

\* lines 233-244: the first k calls of ws.update, size rows each (one call
\* with all the rows when UPLOAD_CHUNK_ROWS is 0)
RECURSIVE WriteChunks(_, _, _, _, _)
WriteChunks(cells, values, size, k, f) ==
  IF k = 0 THEN [cells |-> cells, raised |-> FALSE, calls |-> << >>]
  ELSE LET before == WriteChunks(cells, values, size, k - 1, f)
           end == IF Len(values) < k * size THEN Len(values) ELSE k * size
       IN IF before.raised \/ (f.call = "update" /\ f.k = k)
          THEN [cells |-> before.cells, raised |-> TRUE, calls |-> before.calls]
          ELSE [cells |-> update(before.cells, start_a1_row((k - 1) * size) - 1,
                                 SubSeq(values, (k - 1) * size + 1, end)),
                raised |-> FALSE,
                calls |-> Append(before.calls,
                                 [row |-> start_a1_row((k - 1) * size),
                                  rows |-> end - (k - 1) * size])]

\* lines 233-246, on the cleared (or new) worksheet
WriteAll(tab, grid, values, chunk_rows, f) ==
  LET size == IF chunk_rows > 0 THEN chunk_rows ELSE Len(values)
      done == WriteChunks(tab.rows, values, size, (Len(values) + size - 1) \div size, f)
  IN [tab |-> Tab(done.cells), grid |-> grid,
      wrote |-> IF done.raised THEN "raise" ELSE "ok", calls |-> done.calls]

\* lines 230-231: the grid is enlarged when the values do not fit
Resized(tab, grid, values, chunk_rows, f) ==
  IF grid[1] < Len(values) \/ grid[2] < MaxRowLen(values)
  THEN IF f.call = "resize" THEN [tab |-> tab, grid |-> grid, wrote |-> "raise", calls |-> << >>]
       ELSE WriteAll(tab, << Len(values) + 10, MaxRowLen(values) + 5 >>, values, chunk_rows, f)
  ELSE WriteAll(tab, grid, values, chunk_rows, f)

\* _write_values_to_sheet on one tab: the tab and its grid afterwards and
\* how the write ended ("skipped", "ok", "raise").  A tab that is there and
\* cannot be cleared is asked for again with add_worksheet, which the
\* service refuses for a title in use.
_write_values_to_sheet(tab, grid, values, chunk_rows, f) ==
  IF Len(values) = 0 \/ MaxRowLen(values) = 0
  THEN [tab |-> tab, grid |-> grid, wrote |-> "skipped", calls |-> << >>]
  ELSE IF tab.exists
  THEN IF f.call = "clear" THEN [tab |-> tab, grid |-> grid, wrote |-> "raise", calls |-> << >>]
       ELSE Resized(Tab(clear(tab.rows)), grid, values, chunk_rows, f)
  ELSE IF f.call = "add_worksheet" THEN [tab |-> tab, grid |-> grid, wrote |-> "raise", calls |-> << >>]
       ELSE Resized(Tab(<< >>),
                    << IF Len(values) + 10 > 100 THEN Len(values) + 10 ELSE 100,
                       IF MaxRowLen(values) + 5 > 26 THEN MaxRowLen(values) + 5 ELSE 26 >>,
                    values, chunk_rows, f)

\* the shape of the values as LogsForFile names it
ParsedAs(file) ==
  IF file.raised THEN "raise"
  ELSE IF Len(file.values) = 0 \/ MaxRowLen(file.values) = 0 THEN "empty"
  ELSE IF Len(file.values) <= 1 /\ Len(file.values[1]) <= 1 THEN "tiny"
  ELSE "data"

\* the tab of a name
TabOf(name) ==
  IF name = "BASIC" THEN basic_tab ELSE IF name = "MEDIA" THEN media_tab ELSE sales_tab

\* one file of the loop of apply_uploaded_files (lines 274-294) with the
\* write it ends in
FileOutcome(file, f) ==
  IF _target_tab(file.name) = "" THEN [wrote |-> "no tab"]
  ELSE IF file.raised THEN [wrote |-> "not read"]
  ELSE _write_values_to_sheet(TabOf(_target_tab(file.name)), up_grid[_target_tab(file.name)],
                              file.values, up_chunk, f)

TabAfter(name, file, res) ==
  IF _target_tab(file.name) = name /\ res.wrote \in {"ok", "raise"} THEN res.tab
  ELSE TabOf(name)

up_other == <<cat_in, cat_res, rt_pc, rt_attempt, rt_calls, rt_sleeps, rt_backoffs, rt_err,
              rt_sleep_for, rt_out, fl_pc, fl_logged, mg_spans, mg_out>>

UploadFileEnds(file, res) ==
  /\ basic_tab' = TabAfter("BASIC", file, res)
  /\ media_tab' = TabAfter("MEDIA", file, res)
  /\ sales_tab' = TabAfter("SALES", file, res)
  /\ up_grid' = IF res.wrote \in {"ok", "raise"}
                THEN [up_grid EXCEPT ![_target_tab(file.name)] = res.grid]
                ELSE up_grid
  /\ up_logs' = up_logs \o LogsForFile(file.name, ParsedAs(file),
                                       IF res.wrote = "ok" THEN "ok" ELSE "raise")
  /\ up_wrote' = Append(up_wrote, res.wrote)
  /\ up_calls' = IF res.wrote \in {"ok", "raise"} THEN res.calls ELSE up_calls

UploadFile ==
  /\ up_idx <= Len(up_files)
  /\ \E f \in WriteFailures : UploadFileEnds(up_files[up_idx], FileOutcome(up_files[up_idx], f))
  /\ up_idx' = up_idx + 1
  /\ UNCHANGED <<up_files, up_chunk>>
  /\ UNCHANGED up_other
  /\ UNCHANGED <<vars_app, vars_hdr, vars_s2, vars_steps, tem_tab, ref_doc, template_tab,
                 tem_tops, failures_tab, s1_raised, s1_failures>>

\* lines 296-298: the closing warning and the return
UploadReturn ==
  /\ up_idx = Len(up_files) + 1
  /\ Len(up_wrote) = Len(up_files)
  /\ up_logs' = IF AnyStartsWithOK(up_logs) THEN up_logs
                ELSE Append(up_logs, "[WARN] no tab applied")
  /\ up_wrote' = Append(up_wrote, "returned")
  /\ UNCHANGED <<up_files, up_idx, up_chunk, up_grid, up_calls>>
  /\ UNCHANGED up_other
  /\ UNCHANGED <<vars_app, vars_hdr, vars_s1, tem_tab, vars_s2, vars_steps>>

UploadNames == {"basic.xlsx", "Basic_v2.xlsx", "media.xlsx"}

UploadValues ==
  {<< >>,
   << << "Product ID", "Name" >>, << "P1", "Lamp" >>, << "P2", "Desk" >> >>,
   << << "et_title", "v2", "x" >>, << "P9" >> >>}

UploadFiles ==
  {[name |-> n, raised |-> TRUE, values |-> << >>] : n \in UploadNames}
    \cup {[name |-> n, raised |-> FALSE, values |-> v] : n \in UploadNames, v \in UploadValues}

\* the tabs before the upload: none of them there, or all of them with the
\* cells of an earlier session
UploadTabs ==
  {[tab |-> NoTab, grid |-> << 0, 0 >>],
   [tab |-> Tab(<< << "old", "old" >>, << "old" >>, << "old" >>, << "old" >> >>),
    grid |-> << 4, 2 >>]}

InitUpload ==
  /\ AppIdle /\ HdrKeyIdle /\ ResolverIdle /\ Step2Idle
  /\ TopCategoryIdle /\ RetryIdle /\ FailuresRunIdle /\ MergeIdle
  /\ ref_doc = "ok"
  /\ template_tab = NoTab
  /\ tem_tab = NoTab
  /\ tem_tops = <<>>
  /\ failures_tab = NoTab
  /\ s1_raised = "idle"
  /\ s1_failures = <<>>
  /\ fda_tab = NoTab
  /\ step_overwrite = FALSE
  /\ margin_tab = NoTab
  /\ brand_tab = NoTab
  /\ shop_code = ""
  /\ image_host = ""
  /\ step_before = <<>>
  /\ step_updates = <<>>
  /\ step_raised = "idle"
  /\ step_failures = <<>>
  /\ workbook = <<>>
  /\ \E t \in UploadTabs :
       /\ basic_tab = t.tab
       /\ media_tab = t.tab
       /\ sales_tab = t.tab
       /\ up_grid = [n \in {"BASIC", "MEDIA", "SALES"} |-> t.grid]
  /\ up_files \in {fs \in SeqsUpTo(UploadFiles, MaxUpFiles) :
                     \A i, j \in 1..Len(fs) : i # j => fs[i].name # fs[j].name}
  /\ up_idx = 1
  /\ up_chunk \in {0, 1, 2, 4}
  /\ up_logs = <<>>
  /\ up_wrote = <<>>
  /\ up_calls = <<>>

NextUpload ==
  \/ UploadFile
  \/ UploadReturn

SpecUpload == InitUpload /\ [][NextUpload]_vars

(***************************************************************************)
(* Claims about the upload (SpecUpload).                                   *)
(***************************************************************************)
\* the value of the cell in row r, column c of a table ("" = no value)
ValueAt(cells, r, c) ==
  IF r <= Len(cells) /\ c <= Len(cells[r]) THEN cells[r][c] ELSE ""

SameCells(a, b) ==
  \A r \in 1..(Len(a) + Len(b)) : \A c \in 1..(MaxRowLen(a) + MaxRowLen(b)) :
    ValueAt(a, r, c) = ValueAt(b, r, c)

\* the files routed to a tab whose values are not empty and were written
\* without error
WrittenTo(name) ==
  {i \in 1..Len(up_files) :
     /\ _target_tab(up_files[i].name) = name
     /\ ~up_files[i].raised
     /\ Len(up_files[i].values) > 0 /\ MaxRowLen(up_files[i].values) > 0
     /\ up_wrote[i] = "ok"}

\* C20: after apply_uploaded_files, a tab that two of the files were written
\* to without error holds the cells of the later of the two and nothing
\* else, whatever the earlier file or an earlier session left in it.
C20_LastWriteWins ==
  (Len(up_wrote) = Len(up_files) + 1) =>
    \A name \in Tabs : \A i, j \in WrittenTo(name) :
      (i < j /\ \A k \in 1..Len(up_files) :
                  (k > j => _target_tab(up_files[k].name) # name))
        => SameCells(TabOf(name).rows, up_files[j].values)

\* reached: BASIC held cells of an earlier session, a file of three rows and
\* then a file of two shorter rows were written to it, and it holds the two
\* rows
C20_Witness ==
  /\ Len(up_wrote) = 3
  /\ WrittenTo("BASIC") = {1, 2}
  /\ Len(up_files[1].values) = 3
  /\ up_files[2].values = << << "et_title", "v2", "x" >>, << "P9" >> >>
  /\ up_grid["BASIC"] = << 12, 8 >>
  /\ up_chunk = 2
  /\ basic_tab = Tab(<< << "et_title", "v2", "x" >>, << "P9" >> >>)

\* with_retry when fn comes back from every call and time.sleep from every
\* sleep
SpecRetryFair == SpecRetry /\ WF_vars(NextRetry)

\* with_retry has come to its end
RetryEnded == rt_pc \in {"returned", "raised"}

\* what holds of the calls, the sleeps and the delay at every moment
RetryBounded ==
  /\ rt_calls <= retries
  /\ rt_pc = "returned" =>
       /\ rt_out.kind = "value" /\ rt_out.value \in FnValues
       /\ rt_calls = rt_attempt
  /\ rt_pc = "raised" => (rt_out.kind = "error" /\ rt_out.err = rt_err)
  /\ (rt_pc = "raised" /\ is_rate(rt_err)) => rt_calls = retries
  /\ rt_sleeps = (IF rt_pc \in {"call", "sleep"} THEN rt_calls ELSE rt_calls - 1)
  /\ rt_sleep_for <= max_delay
  /\ rt_pc = "sleep" => rt_sleep_for >= delay_after(rt_backoffs)
                         \/ rt_sleep_for = max_delay
  /\ rt_backoffs >= 1 => delay_after(rt_backoffs - 1) <= delay_after(rt_backoffs)

\* C21: with_retry ends, after at most `retries` calls of fn: it returns what
\* the first call that does not raise returned (no call follows it); when
\* every call raised a retryable error it raises the error of the last of
\* the `retries` calls; between two calls it sleeps once, no sleep is longer
\* than max_delay, and the delay before the jitter never goes down.
C21_EndsWithinRetries == []RetryBounded /\ <>RetryEnded

\* reached: all eight calls raised a retryable error, the error of the last
\* one is raised after seven sleeps, the last of them of max_delay
C21_Witness ==
  /\ rt_pc = "raised"
  /\ rt_calls = retries
  /\ rt_sleeps = retries - 1
  /\ rt_sleep_for = max_delay
  /\ rt_out = [kind |-> "error", value |-> "", err |-> [code |-> 503, msg |-> "The service is currently unavailable"]]

(***************************************************************************)
(* main_controller.py and automation_steps.py: the Failures tab in one run *)
(* of run_all_steps_with_progress                                          *)
(***************************************************************************)
MaxFailureRows == 3     \* failure rows one step logs

FailuresHeader == << "PID", "Category", "Name", "Reason", "Detail" >>

\* _initialize_failures_sheet (lines 29-40): the tab afterwards and whether
\* the method raised; f names the call that fails for good, if any
_initialize_failures_sheet(tab, f) ==
  IF tab.exists
  THEN IF f = "clear" THEN [tab |-> tab, raised |-> TRUE]
       ELSE IF f = "update" THEN [tab |-> Tab(clear(tab.rows)), raised |-> TRUE]
       ELSE [tab |-> Tab(update(clear(tab.rows), 0, << FailuresHeader >>)), raised |-> FALSE]
  ELSE IF f = "add_worksheet" THEN [tab |-> tab, raised |-> TRUE]
       ELSE IF f = "update" THEN [tab |-> Tab(<< >>), raised |-> TRUE]
       ELSE [tab |-> Tab(update(<< >>, 0, << FailuresHeader >>)), raised |-> FALSE]

\* the failure rows Step 1 and Step 4 make (lines 242, 276, 644, 655)
Step1FailureRows ==
  {<< "P1", "Beauty/Makeup", "Tint", "TEMPL_HEADER_NOT_FOUND", "top=beauty" >>,
   << "P2", "Home/Lamps", "Lamp", "SKU_MATCH_NOT_FOUND", "opt=Red" >>}

Step4FailureRows ==
  {<< "P1", "", "", "WEIGHT_MAP_MISSING", "sku=S1" >>,
   << "P2", "", "", "BRAND_CODE_NOT_FOUND", "brand_name=Acme" >>}

\* the lists of at most n rows of S, the empty one among them
FailureLists(S, n) == {<< >>} \cup UNION {[1..k -> S] : k \in 1..n}

fl_other == <<cat_in, cat_res, rt_pc, rt_attempt, rt_calls, rt_sleeps, rt_backoffs, rt_err,
              rt_sleep_for, rt_out, up_files, up_idx, up_chunk, up_grid, up_logs, up_wrote,
              up_calls, mg_spans, mg_out>>

fl_tabs == <<ref_doc, basic_tab, media_tab, sales_tab, template_tab, tem_tops, s1_raised,
             s1_failures, tem_tab>>

\* lines 51-55: the tab is initialized; on an exception the run returns
InitializeFailures ==
  /\ fl_pc = "init"
  /\ \E f \in {"none", "clear", "add_worksheet", "update"} :
       /\ failures_tab' = _initialize_failures_sheet(failures_tab, f).tab
       /\ fl_pc' = IF _initialize_failures_sheet(failures_tab, f).raised
                   THEN "init failed" ELSE "step 1"
  /\ UNCHANGED fl_logged
  /\ UNCHANGED fl_other
  /\ UNCHANGED <<vars_app, vars_hdr, vars_s2, vars_steps, fl_tabs>>

\* the step ends: with _append_failures on its list (lines 308-309 and
\* 659-660), which may fail at one of its calls and so end the run, or with
\* an exception before it
StepLogs(rows, next) ==
  \/ /\ failures_tab' = _append_failures(failures_tab, rows)
     /\ fl_logged' = fl_logged \o rows
     /\ fl_pc' = next
  \/ /\ UNCHANGED <<failures_tab, fl_logged>>
     /\ fl_pc' = "done"

Step1Logs ==
  /\ fl_pc = "step 1"
  /\ \E rows \in FailureLists(Step1FailureRows, MaxFailureRows) : StepLogs(rows, "step 4")
  /\ UNCHANGED fl_other
  /\ UNCHANGED <<vars_app, vars_hdr, vars_s2, vars_steps, fl_tabs>>

Step4Logs ==
  /\ fl_pc = "step 4"
  /\ \E rows \in FailureLists(Step4FailureRows, MaxFailureRows) : StepLogs(rows, "done")
  /\ UNCHANGED fl_other
  /\ UNCHANGED <<vars_app, vars_hdr, vars_s2, vars_steps, fl_tabs>>

\* the Failures tab as an earlier run or the user left it
FailuresBefore ==
  FailuresTabs \cup
    {Tab(<< >>),
     Tab(<< FailuresHeader, << "P0", "Old", "", "STEP1_ERROR", "" >>,
            << "P7", "", "", "WEIGHT_MAP_MISSING", "sku=S7" >>,
            << "P8", "", "", "WEIGHT_MAP_MISSING", "sku=S8" >>,
            << "P9", "", "", "WEIGHT_MAP_MISSING", "sku=S9", "note" >> >>)}

InitFailuresRun ==
  /\ AppIdle /\ HdrKeyIdle /\ ResolverIdle /\ Step2Idle
  /\ TopCategoryIdle /\ RetryIdle /\ UploadIdle /\ MergeIdle
  /\ ref_doc = "ok"
  /\ basic_tab = NoTab
  /\ media_tab = NoTab
  /\ sales_tab = NoTab
  /\ template_tab = NoTab
  /\ tem_tab = NoTab
  /\ tem_tops = <<>>
  /\ s1_raised = "idle"
  /\ s1_failures = <<>>
  /\ fda_tab = NoTab
  /\ step_overwrite = FALSE
  /\ margin_tab = NoTab
  /\ brand_tab = NoTab
  /\ shop_code = ""
  /\ image_host = ""
  /\ step_before = <<>>
  /\ step_updates = <<>>
  /\ step_raised = "idle"
  /\ step_failures = <<>>
  /\ workbook = <<>>
  /\ failures_tab \in FailuresBefore
  /\ fl_pc = "init"
  /\ fl_logged = <<>>

NextFailuresRun ==
  \/ InitializeFailures
  \/ Step1Logs
  \/ Step4Logs

SpecFailuresRun == InitFailuresRun /\ [][NextFailuresRun]_vars

(***************************************************************************)
(* Claims about the Failures tab (SpecFailuresRun).                        *)
(***************************************************************************)
\* C22: once the controller has initialized the Failures tab, the tab holds
\* the header row [PID, Category, Name, Reason, Detail] in row 1 and below it
\* every failure row the steps of the run have appended, in the order they
\* were appended: each append starts below the last row, nothing logged
\* earlier in the run is overwritten or removed, and nothing of an earlier
\* run is left.
C22_FailuresOnlyAppended ==
  fl_pc \in {"step 1", "step 4", "done"} =>
    /\ failures_tab.exists
    /\ failures_tab.rows = << FailuresHeader >> \o fl_logged

\* reached: Step 1 logged two rows and Step 4 two more, and the last row
\* of the tab is the last one logged
C22_Witness ==
  /\ fl_pc = "done"
  /\ Len(fl_logged) = 4
  /\ fl_logged[1][4] = "TEMPL_HEADER_NOT_FOUND"
  /\ fl_logged[2][4] = "SKU_MATCH_NOT_FOUND"
  /\ fl_logged[3][4] = "WEIGHT_MAP_MISSING"
  /\ fl_logged[4][4] = "BRAND_CODE_NOT_FOUND"
  /\ Len(failures_tab.rows) = 5
  /\ failures_tab.rows[5] = fl_logged[4]

(***************************************************************************)
(* Claims about the chunked write (SpecUpload).                            *)
(***************************************************************************)
\* the file handled last, when its write got to its last line
LastWritten ==
  IF up_idx > 1 /\ up_idx <= Len(up_files) + 1 /\ Len(up_wrote) >= up_idx - 1
     /\ up_wrote[up_idx - 1] = "ok"
  THEN {up_files[up_idx - 1]} ELSE {}

\* the rows the first k calls of ws.update have written
RECURSIVE RowsCovered(_)
RowsCovered(k) == IF k = 0 THEN 0 ELSE RowsCovered(k - 1) + up_calls[k].rows

\* C23: a write in chunks of UPLOAD_CHUNK_ROWS > 0 rows that got to its last
\* line has made calls of ws.update whose rows follow one another without a
\* gap or an overlap from row 1 to row len(values), each call starting at
\* the sheet row of its first row of values; there are no more calls than
\* rows; and the tab holds what the single write of UPLOAD_CHUNK_ROWS = 0
\* gives.
C23_ChunkedWriteEqualsSingleWrite ==
  \A file \in LastWritten :
    up_chunk > 0 =>
      /\ Len(up_calls) >= 1 /\ Len(up_calls) <= Len(file.values)
      /\ \A k \in 1..Len(up_calls) :
           /\ up_calls[k].rows >= 1 /\ up_calls[k].rows <= up_chunk
           /\ up_calls[k].row = RowsCovered(k - 1) + 1
      /\ RowsCovered(Len(up_calls)) = Len(file.values)
      /\ TabOf(_target_tab(file.name)) =
           _write_values_to_sheet(TabOf(_target_tab(file.name)),
                                  up_grid[_target_tab(file.name)], file.values, 0,
                                  [call |-> "none", k |-> 0]).tab
      /\ SameCells(TabOf(_target_tab(file.name)).rows, file.values)

\* reached: three rows written in chunks of two rows, a chunk of two and a
\* chunk of one
C23_Witness ==
  \E file \in LastWritten :
    /\ Len(file.values) = 3
    /\ up_chunk = 2
    /\ up_calls = << [row |-> 1, rows |-> 2], [row |-> 3, rows |-> 1] >>
    /\ TabOf(_target_tab(file.name)).rows = file.values

(***************************************************************************)
(* _merge of run_step_2 (automation_steps.py lines 430-441) on its own,    *)
(* and with the coloring requests of Step 2.                               *)
(***************************************************************************)
MaxSpans == 4     \* spans in the list given to _merge
MaxSpanRow == 4   \* the last row index r0 of a span (r0, r0 + 1)

\* color_ranges_by_col[j]: the spans (r0, r0 + 1) in the order of appending
RECURSIVE SpanLists(_)
SpanLists(n) ==
  IF n = 0 THEN {<< >>}
  ELSE SpanLists(n - 1)
         \cup {Append(l, << r0, r0 + 1 >>) :
                 l \in {m \in SpanLists(n - 1) : Len(m) = n - 1}, r0 \in 0..MaxSpanRow}

\* for s, e in _merge(spans)
Merge ==
  /\ mg_out.state = "ready"
  /\ mg_out' = [state |-> "done", merged |-> _merge(mg_spans)]
  /\ UNCHANGED mg_spans
  /\ UNCHANGED <<vars_app, vars_hdr, vars_s1, tem_tab, vars_s2, vars_steps>>
  /\ UNCHANGED <<cat_in, cat_res, rt_pc, rt_attempt, rt_calls, rt_sleeps, rt_backoffs,
                 rt_err, rt_sleep_for, rt_out, up_files, up_idx, up_chunk, up_grid,
                 up_logs, up_wrote, up_calls, fl_pc, fl_logged>>

InitMerge ==
  /\ AppIdle /\ HdrKeyIdle /\ ResolverIdle /\ Step2Idle
  /\ TopCategoryIdle /\ RetryIdle /\ UploadIdle /\ FailuresRunIdle
  /\ ref_doc = "ok"
  /\ basic_tab = NoTab
  /\ media_tab = NoTab
  /\ sales_tab = NoTab
  /\ template_tab = NoTab
  /\ tem_tab = NoTab
  /\ tem_tops = <<>>
  /\ failures_tab = NoTab
  /\ s1_raised = "idle"
  /\ s1_failures = <<>>
  /\ fda_tab = NoTab
  /\ step_overwrite = FALSE
  /\ margin_tab = NoTab
  /\ brand_tab = NoTab
  /\ shop_code = ""
  /\ image_host = ""
  /\ step_before = <<>>
  /\ step_updates = <<>>
  /\ step_raised = "idle"
  /\ step_failures = <<>>
  /\ workbook = <<>>
  /\ mg_spans \in SpanLists(MaxSpans)
  /\ mg_out = [state |-> "ready", merged |-> <<>>]

InitColoring == InitStep2 \/ InitMerge

NextColoring ==
  \/ RunStep2
  \/ Merge

SpecColoring == InitColoring /\ [][NextColoring]_vars

\* the row indexes inside the half-open spans of a list
RowsOf(spans) == UNION {spans[i][1]..(spans[i][2] - 1) : i \in 1..Len(spans)}

\* sorted by start, and each span ends before the next one starts
Separated(merged) ==
  /\ \A i \in 1..Len(merged) : merged[i][1] < merged[i][2]
  /\ \A i \in 1..(Len(merged) - 1) : merged[i][2] < merged[i + 1][1]

\* the header keys in force at row r0 (0-based) of TEM_OUTPUT: those of the
\* last header row above it (<< >> when there is none)
HeaderKeysAt(vals, r0) ==
  LET above == {h \in 1..r0 : IsHeaderRow(vals[h])} IN
  IF above = {} THEN << >>
  ELSE HeaderKeys(Rest(vals[CHOOSE h \in above : \A g \in above : g <= h]))

\* lines 397-411: row r0 (0-based) of TEM_OUTPUT is recorded for column j:
\* it is no header row, lies under a header row, has a product id and a
\* category that cat props list, and one of the Mandatory attributes of the
\* category is found in column j of the header
RecordedFor(vals, catprops_map, r0, j) ==
  /\ r0 + 1 \in 1..Len(vals)
  /\ ~IsHeaderRow(vals[r0 + 1])
  /\ HeaderKeysAt(vals, r0) # << >>
  /\ strip(Cell(vals[r0 + 1], 0)) # ""
  /\ strip(Cell(vals[r0 + 1], 1)) # ""
  /\ lower(strip(Cell(vals[r0 + 1], 1))) \in DOMAIN catprops_map
  /\ \E a \in 1..Len(catprops_map[lower(strip(Cell(vals[r0 + 1], 1)))]) :
       _find_col_index(HeaderKeysAt(vals, r0),
                       catprops_map[lower(strip(Cell(vals[r0 + 1], 1)))][a], << >>) = j

\* the rows of TEM_OUTPUT that the requests of column j cover
RequestRows(j) ==
  UNION {q.startRowIndex..(q.endRowIndex - 1) : q \in {p \in color_requests : p.col = j}}

\* C24: for every list of spans (r, r + 1), _merge returns spans that are
\* sorted by start, pairwise disjoint and not adjacent, and that cover
\* exactly the rows the given spans cover; and the coloring requests of
\* Step 2 cover, in each column, exactly the rows recorded for that column,
\* none of which is a header row, with no two requests of a column
\* overlapping or touching.
C24_MergeKeepsTheRows ==
  /\ mg_out.state = "done" =>
       /\ Separated(mg_out.merged)
       /\ RowsOf(mg_out.merged) = RowsOf(mg_spans)
       /\ (mg_spans = << >>) = (mg_out.merged = << >>)
  /\ s2_raised = "" =>
       /\ \A q \in color_requests :
            \A r0 \in q.startRowIndex..(q.endRowIndex - 1) :
              /\ ~IsHeaderRow(tem_before[r0 + 1])
              /\ RecordedFor(tem_before,
                             CatPropsRows(cat_props_tab.rows, Len(cat_props_tab.rows) - 1),
                             r0, q.col)
       /\ \A r0 \in 0..(Len(tem_before) - 1) : \A j \in 0..Len(HeaderKeysAt(tem_before, r0)) :
            RecordedFor(tem_before,
                        CatPropsRows(cat_props_tab.rows, Len(cat_props_tab.rows) - 1),
                        r0, j) => r0 \in RequestRows(j)
       /\ \A q \in color_requests : \A p \in color_requests :
            (p.col = q.col /\ p # q) =>
              (p.endRowIndex < q.startRowIndex \/ q.endRowIndex < p.startRowIndex)

\* reached: spans given out of order, one of them twice and two of them
\* adjacent, merged into one span and a separate one
C24_Witness ==
  /\ mg_out.state = "done"
  /\ mg_spans = << << 3, 4 >>, << 0, 1 >>, << 1, 2 >>, << 0, 1 >> >>
  /\ mg_out.merged = << << 0, 2 >>, << 3, 4 >> >>

====
